---------------------------- MODULE Spec2Model ----------------------------
(***************************************************************************)
(* Channel-activity aggregation pipeline of mattermost-pulse               *)
(* (src/mattermost_api.py): the post paginator get_channel_posts, the      *)
(* transport error mapping of the fetch functions, the thread reaction     *)
(* enricher enrich_posts_with_thread_reactions, the emoji classifier       *)
(* functions, and the channel tab (src/tabs/channel_tab.py, src/app.py):   *)
(* its load handler, its session state and its category statistics.       *)
(***************************************************************************)
EXTENDS Integers, Sequences, FiniteSets, TLC

(***************************************************************************)
(* Bounds of the model.                                                    *)
(***************************************************************************)
MaxPosts == 3      \* posts a channel holds at most
MaxTime == 2       \* create_at, start_timestamp, end_timestamp range over 0..MaxTime
MaxPerPage == 2    \* the small page sizes are 1..MaxPerPage
MaxErrLog == 2     \* failed fetches recorded in err_log
MaxEnrich == 2     \* posts handed to enrich_posts_with_thread_reactions
MaxThread == 2     \* posts a thread's order list holds at most
MaxArgPosts == 2   \* posts handed to the emoji classifier functions
MaxSession == 2    \* posts the session holds when the statistics are asked for

VARIABLES
    \* ---- the server's channel and one get_channel_posts call ----
    channel,          \* the channel's entries, in the order the server lists them
    changed,          \* a post was added to the channel since the call began
    pc,               \* "idle" | "loop" | "returned" | "raised"
    start_timestamp,
    end_timestamp,
    per_page,
    page,
    all_posts,
    requests,         \* the params of the page requests made by the call so far, in order
    pages,            \* the JSON bodies received by the call so far, in order
    result,           \* what the call handed to its caller
    dates,            \* the start_date and end_date the call was made with, if given as datetimes
    \* ---- failed calls of the fetch functions ----
    err_log,          \* [op, failure, error]: what each failed fetch raised
    \* ---- one enrich_posts_with_thread_reactions call ----
    posts,            \* the argument: the list of post dicts
    heap,             \* the metadata dicts, by address
    heap0,            \* the metadata dicts as they were when the call began
    enriched_posts,
    epc,              \* "loop" | "returned"
    thread_log,       \* per processed post, what the server answered for it
    req_log,          \* the requests of the call, issued and answered, in the order of time
    thread_call,      \* the get_thread_reactions call under way: the answers it has got
    \* ---- one call of an emoji classifier function ----
    arg_posts,        \* the argument: the list of post dicts
    arg_posts0,       \* the post dicts as they were when the call began
    ret,              \* the function called, its other argument, its return value
    \* ---- the channel tab ----
    session,          \* st.session_state: the keys the tab assigns
    ui,               \* the last st.error / st.warning / st.success of the load handler
    net_log,          \* the requests issued since the load button was last pressed
    last_load,        \* the most recent press of the load button: its form and outcome
    stats,            \* what the last press of the statistics button displayed
    render,           \* the category widgets as _render_categories_and_stats last drew them
    \* ---- one broadcast_message call ----
    recipients,       \* the argument: the list of e-mail addresses and user names
    results,
    successful,
    failed,
    bpc,              \* "idle" | "loop" | "returned"
    broadcast_result, \* the dict the call returned
    msg_log           \* the requests of the call and what they returned, in order

pvars == <<channel, changed, pc, start_timestamp, end_timestamp, per_page,
           page, all_posts, requests, pages, result, dates>>

errvars == <<err_log>>

envars == <<posts, heap, heap0, enriched_posts, epc, thread_log, req_log, thread_call>>

fnvars == <<arg_posts, arg_posts0, ret>>

tabvars == <<session, ui, net_log, last_load, stats, render>>

msgvars == <<recipients, results, successful, failed, bpc, broadcast_result, msg_log>>

vars == <<pvars, errvars, envars, fnvars, tabvars, msgvars>>

None == [none |-> TRUE]

\* a dict without keys
EmptyDict == [k \in {} |-> TRUE]

\* key in dict
Has(dict, key) == key \in DOMAIN dict

\* No emoji classifier function has been called.
NoCall == [fn |-> "none"]

FnIdle ==
    /\ arg_posts = <<>>
    /\ arg_posts0 = <<>>
    /\ ret = NoCall

\* The channel tab of a fresh session: no button pressed yet.
NoMessage == [level |-> "none"]
NoLoad == [outcome |-> "none"]
NoStats == [shown |-> FALSE]
NoRender == [rendered |-> FALSE]

\* No broadcast_message call has been made.
MsgIdle ==
    /\ recipients = <<>>
    /\ results = <<>>
    /\ successful = 0
    /\ failed = 0
    /\ bpc = "idle"
    /\ broadcast_result = None
    /\ msg_log = <<>>

TabIdle ==
    /\ session = EmptyDict
    /\ ui = NoMessage
    /\ net_log = <<>>
    /\ last_load = NoLoad
    /\ stats = NoStats
    /\ render = NoRender

(***************************************************************************)
(* Transport outcomes other than a 2xx answer.                             *)
(***************************************************************************)
HttpStatuses == {401, 403, 404, 500, 503}
Bodies == {"oops", "down"}

HttpFailures == [kind : {"http"}, status_code : HttpStatuses, text : Bodies]
TimeoutFailure == [kind |-> "timeout", str |-> "read timed out"]
ConnectionFailure == [kind |-> "connection", str |-> "connection refused"]
TransportFailures == HttpFailures \cup {TimeoutFailure, ConnectionFailure}

\* One failure for every except-branch of get_channel_posts.
PageFailures ==
    {f \in HttpFailures : f.text = "oops" /\ f.status_code # 503}
        \cup {TimeoutFailure, ConnectionFailure}

ValueError(msg, args) == [exception |-> "ValueError", msg |-> msg, args |-> args]

\* except-clauses of get_channel_posts
ChannelPostsError(f) ==
    IF f.kind = "http" THEN
        IF f.status_code = 401 THEN ValueError("invalid access token", <<>>)
        ELSE IF f.status_code = 403 THEN ValueError("no access rights to the channel", <<>>)
        ELSE IF f.status_code = 404 THEN ValueError("channel not found", <<>>)
        ELSE ValueError("API error", <<f.status_code, f.text>>)
    ELSE IF f.kind = "timeout" THEN ValueError("server response timed out", <<>>)
    ELSE ValueError("connection error", <<f.str>>)

\* except-clauses of get_thread_posts
ThreadPostsError(f) ==
    IF f.kind = "http" THEN
        IF f.status_code = 401 THEN ValueError("invalid access token", <<>>)
        ELSE IF f.status_code = 404 THEN ValueError("post not found or unavailable", <<>>)
        ELSE ValueError("API error", <<f.status_code, f.text>>)
    ELSE ValueError("connection error", <<f.str>>)

\* except-clauses of get_reactions
ReactionsError(f) ==
    IF f.kind = "http" THEN
        IF f.status_code = 401 THEN ValueError("invalid access token", <<>>)
        ELSE IF f.status_code = 404 THEN ValueError("post not found or unavailable", <<>>)
        ELSE ValueError("API error", <<f.status_code, f.text>>)
    ELSE ValueError("connection error", <<f.str>>)

(***************************************************************************)
(* The server: GET /channels/{id}/posts?page=&per_page=                    *)
(***************************************************************************)
Min(a, b) == IF a < b THEN a ELSE b

Post(id, t) == [id |-> id, create_at |-> t]

ChannelPosts == [id : 1..MaxPosts, create_at : 0..MaxTime]

RECURSIVE SeqsUpTo(_, _)
SeqsUpTo(S, n) ==
    IF n = 0 THEN {<<>>}
    ELSE LET shorter == SeqsUpTo(S, n - 1)
         IN shorter \cup {Append(s, x) : s \in {q \in shorter : Len(q) = n - 1}, x \in S}

\* Channels at the start: entry i carries id i.
InitialChannels ==
    {c \in SeqsUpTo(ChannelPosts, MaxPosts) : \A i \in 1..Len(c) : c[i].id = i}

RECURSIVE MaxId(_)
MaxId(c) ==
    IF c = <<>> THEN 0
    ELSE LET m == MaxId(Tail(c)) IN IF Head(c).id > m THEN Head(c).id ELSE m

ServerPage(c, p, n) ==
    LET lo == p * n + 1
        hi == Min(Len(c), (p + 1) * n)
        slice == IF lo > hi THEN <<>> ELSE SubSeq(c, lo, hi)
    IN [order |-> [i \in 1..Len(slice) |-> slice[i].id],
        posts |-> {slice[i] : i \in 1..Len(slice)}]

\* data['posts'].get(post_id)
PostsGet(page_posts, post_id) ==
    IF \E q \in page_posts : q.id = post_id
    THEN CHOOSE q \in page_posts : q.id = post_id
    ELSE None

(***************************************************************************)
(* get_channel_posts                                                       *)
(***************************************************************************)
\* ScanOrder keeping every post up to end_timestamp, whatever its age.
RECURSIVE ScanOrder_NoLowerBound(_, _, _, _, _, _)
ScanOrder_NoLowerBound(page_posts, order, i, acc, s, e) ==
    IF i > Len(order) THEN [all_posts |-> acc, returned |-> FALSE]
    ELSE LET post == PostsGet(page_posts, order[i]) IN
         IF post = None THEN ScanOrder_NoLowerBound(page_posts, order, i + 1, acc, s, e)
         ELSE LET acc2 == IF post.create_at <= e THEN Append(acc, post) ELSE acc
              IN IF post.create_at < s
                 THEN [all_posts |-> acc2, returned |-> TRUE]
                 ELSE ScanOrder_NoLowerBound(page_posts, order, i + 1, acc2, s, e)

\* ScanOrder leaving the loop already at a post created exactly at start_timestamp.
RECURSIVE ScanOrder_ExitAtStart(_, _, _, _, _, _)
ScanOrder_ExitAtStart(page_posts, order, i, acc, s, e) ==
    IF i > Len(order) THEN [all_posts |-> acc, returned |-> FALSE]
    ELSE LET post == PostsGet(page_posts, order[i]) IN
         IF post = None THEN ScanOrder_ExitAtStart(page_posts, order, i + 1, acc, s, e)
         ELSE LET acc2 == IF s <= post.create_at /\ post.create_at <= e
                          THEN Append(acc, post) ELSE acc
              IN IF post.create_at <= s
                 THEN [all_posts |-> acc2, returned |-> TRUE]
                 ELSE ScanOrder_ExitAtStart(page_posts, order, i + 1, acc2, s, e)

\* ScanOrder that skips an old post and goes on instead of returning.
RECURSIVE ScanOrder_NoEarlyExit(_, _, _, _, _, _)
ScanOrder_NoEarlyExit(page_posts, order, i, acc, s, e) ==
    IF i > Len(order) THEN [all_posts |-> acc, returned |-> FALSE]
    ELSE LET post == PostsGet(page_posts, order[i]) IN
         IF post = None THEN ScanOrder_NoEarlyExit(page_posts, order, i + 1, acc, s, e)
         ELSE LET acc2 == IF s <= post.create_at /\ post.create_at <= e
                          THEN Append(acc, post) ELSE acc
              IN ScanOrder_NoEarlyExit(page_posts, order, i + 1, acc2, s, e)

\* the for-loop over one page's order list
RECURSIVE ScanOrder(_, _, _, _, _, _)
ScanOrder(page_posts, order, i, acc, s, e) ==
    IF i > Len(order) THEN [all_posts |-> acc, returned |-> FALSE]
    ELSE LET post == PostsGet(page_posts, order[i]) IN
         IF post = None THEN ScanOrder(page_posts, order, i + 1, acc, s, e)
         ELSE LET post_timestamp == post.create_at
                  acc2 == IF s <= post_timestamp /\ post_timestamp <= e
                          THEN Append(acc, post) ELSE acc
              IN IF post_timestamp < s
                 THEN [all_posts |-> acc2, returned |-> TRUE]
                 ELSE ScanOrder(page_posts, order, i + 1, acc2, s, e)

\* params of one page request
PageRequest(p, n) == [page |-> p, per_page |-> n]

\* The largest page size the posts endpoint is to be asked for.
PerPageMax == 200

\* Page sizes a caller passes: the small ones, and one beyond PerPageMax.
PageSizes == (1..MaxPerPage) \cup {PerPageMax + 1}

NoResult == [kind |-> "none"]
Returned(list) == [kind |-> "return", posts |-> list]
Raised(error) == [kind |-> "raise", error |-> error]

\* A caller invokes get_channel_posts.
CallGetChannelPosts(s, e, n) ==
    /\ pc = "idle"
    /\ pc' = "loop"
    /\ start_timestamp' = s
    /\ end_timestamp' = e
    /\ per_page' = n
    /\ page' = 0
    /\ all_posts' = <<>>
    /\ requests' = <<>>
    /\ pages' = <<>>
    /\ result' = NoResult
    /\ UNCHANGED <<dates, channel, changed>>
    /\ UNCHANGED <<errvars, envars, fnvars, tabvars, msgvars>>

\* PageOk without the test for a page shorter than per_page.
PageOk_NoShortBreak ==
    /\ pc = "loop"
    /\ LET data == ServerPage(channel, page, per_page)
           scan == ScanOrder(data.posts, data.order, 1, all_posts,
                             start_timestamp, end_timestamp)
       IN /\ requests' = Append(requests, PageRequest(page, per_page))
          /\ pages' = Append(pages, data)
          /\ IF data.order = <<>> THEN
                 /\ pc' = "returned"
                 /\ result' = Returned(all_posts)
                 /\ UNCHANGED <<all_posts, page>>
             ELSE IF scan.returned THEN
                 /\ pc' = "returned"
                 /\ all_posts' = scan.all_posts
                 /\ result' = Returned(scan.all_posts)
                 /\ UNCHANGED page
             ELSE
                 /\ pc' = "loop"
                 /\ all_posts' = scan.all_posts
                 /\ page' = page + 1
                 /\ UNCHANGED result
    /\ UNCHANGED <<dates, channel, changed, start_timestamp, end_timestamp, per_page>>
    /\ UNCHANGED <<errvars, envars, fnvars, tabvars, msgvars>>

\* One iteration of the while-loop whose request is answered with a 2xx.
PageOk ==
    /\ pc = "loop"
    /\ LET data == ServerPage(channel, page, per_page)
           scan == ScanOrder(data.posts, data.order, 1, all_posts,
                             start_timestamp, end_timestamp)
       IN /\ requests' = Append(requests, PageRequest(page, per_page))
          /\ pages' = Append(pages, data)
          /\ IF data.order = <<>> THEN
                 /\ pc' = "returned"
                 /\ result' = Returned(all_posts)
                 /\ UNCHANGED <<all_posts, page>>
             ELSE IF scan.returned THEN
                 /\ pc' = "returned"
                 /\ all_posts' = scan.all_posts
                 /\ result' = Returned(scan.all_posts)
                 /\ UNCHANGED page
             ELSE IF Len(data.order) < per_page THEN
                 /\ pc' = "returned"
                 /\ all_posts' = scan.all_posts
                 /\ result' = Returned(scan.all_posts)
                 /\ UNCHANGED page
             ELSE
                 /\ pc' = "loop"
                 /\ all_posts' = scan.all_posts
                 /\ page' = page + 1
                 /\ UNCHANGED result
    /\ UNCHANGED <<dates, channel, changed, start_timestamp, end_timestamp, per_page>>
    /\ UNCHANGED <<errvars, envars, fnvars, tabvars, msgvars>>

\* PageFail that swallows the failure and hands back what was collected.
PageFail_Partial(f) ==
    /\ pc = "loop"
    /\ requests' = Append(requests, PageRequest(page, per_page))
    /\ pc' = "returned"
    /\ result' = Returned(all_posts)
    /\ UNCHANGED <<dates, channel, changed, start_timestamp, end_timestamp, per_page,
                   page, all_posts, pages>>
    /\ UNCHANGED <<errvars, envars, fnvars, tabvars, msgvars>>

\* PageFail that asks for the same page again instead of raising.
PageFail_Retry(f) ==
    /\ pc = "loop"
    /\ requests' = Append(requests, PageRequest(page, per_page))
    /\ UNCHANGED <<dates, channel, changed, pc, start_timestamp, end_timestamp, per_page,
                   page, all_posts, pages, result>>
    /\ UNCHANGED <<errvars, envars, fnvars, tabvars, msgvars>>

\* One iteration of the while-loop whose request fails.
PageFail(f) ==
    /\ pc = "loop"
    /\ requests' = Append(requests, PageRequest(page, per_page))
    /\ pc' = "raised"
    /\ result' = Raised(ChannelPostsError(f))
    /\ UNCHANGED <<dates, channel, changed, start_timestamp, end_timestamp, per_page,
                   page, all_posts, pages>>
    /\ UNCHANGED <<errvars, envars, fnvars, tabvars, msgvars>>

\* Somebody posts to the channel while the call is running; the server lists
\* the new post first.
NewPost(t) ==
    /\ pc = "loop"
    /\ Len(channel) < MaxPosts
    /\ channel' = <<Post(MaxId(channel) + 1, t)>> \o channel
    /\ changed' = TRUE
    /\ UNCHANGED <<dates, pc, start_timestamp, end_timestamp, per_page, page,
                   all_posts, requests, pages, result>>
    /\ UNCHANGED <<errvars, envars, fnvars, tabvars, msgvars>>

Init ==
    /\ channel \in InitialChannels
    /\ changed = FALSE
    /\ pc = "idle"
    /\ start_timestamp = 0
    /\ end_timestamp = 0
    /\ per_page = 1
    /\ page = 0
    /\ all_posts = <<>>
    /\ requests = <<>>
    /\ pages = <<>>
    /\ result = NoResult
    /\ dates = None
    /\ err_log = <<>>
    /\ MsgIdle
    /\ posts = <<>>
    /\ heap = <<>>
    /\ heap0 = <<>>
    /\ enriched_posts = <<>>
    /\ epc = "returned"
    /\ thread_log = <<>>
    /\ req_log = <<>>
    /\ thread_call = None
    /\ FnIdle
    /\ TabIdle

\* The callers pass start_date <= end_date (tabs/channel_tab.py, line 66).
Next ==
    \/ \E s \in 0..MaxTime, e \in 0..MaxTime, n \in PageSizes :
           s <= e /\ CallGetChannelPosts(s, e, n)
    \/ PageOk
    \/ \E f \in PageFailures : PageFail(f)
    \/ \E t \in 0..MaxTime : NewPost(t)

Spec == Init /\ [][Next]_vars

\* One call of get_channel_posts on a channel that stays as it is.  Every
\* request is answered or times out (timeout=30), so the call takes its next step.
CallInit ==
    /\ channel \in InitialChannels
    /\ changed = FALSE
    /\ pc = "loop"
    /\ start_timestamp \in 0..MaxTime
    /\ end_timestamp \in start_timestamp..MaxTime
    /\ per_page \in 1..MaxPerPage
    /\ page = 0
    /\ all_posts = <<>>
    /\ requests = <<>>
    /\ pages = <<>>
    /\ result = NoResult
    /\ dates = None
    /\ err_log = <<>>
    /\ MsgIdle
    /\ posts = <<>>
    /\ heap = <<>>
    /\ heap0 = <<>>
    /\ enriched_posts = <<>>
    /\ epc = "returned"
    /\ thread_log = <<>>
    /\ req_log = <<>>
    /\ thread_call = None
    /\ FnIdle
    /\ TabIdle

CallNext ==
    \/ PageOk
    \/ PageFail(TimeoutFailure)

CallSpec == CallInit /\ [][CallNext]_vars /\ WF_vars(CallNext)

(***************************************************************************)
(* Properties of get_channel_posts                                         *)
(***************************************************************************)
InRange(post) == start_timestamp <= post.create_at /\ post.create_at <= end_timestamp
TooOld(post) == post.create_at < start_timestamp

\* the posts of one received page, in the page's order
PagePosts(data) ==
    LET present == SelectSeq(data.order, LAMBDA id : PostsGet(data.posts, id) # None)
    IN [i \in 1..Len(present) |-> PostsGet(data.posts, present[i])]

\* the posts of the pages received so far, in the order they were received
RECURSIVE Stream(_)
Stream(ps) == IF ps = <<>> THEN <<>> ELSE PagePosts(Head(ps)) \o Stream(Tail(ps))

NewestFirst(c) == \A i \in 1..Len(c), j \in 1..Len(c) : i < j => c[i].create_at >= c[j].create_at

\* C1: every post collected or returned by get_channel_posts has
\* start_timestamp <= create_at <= end_timestamp, also when older posts
\* were present in a fetched page.
C1_ResultInRange ==
    /\ \A i \in 1..Len(all_posts) : InRange(all_posts[i])
    /\ result.kind = "return" => \A i \in 1..Len(result.posts) : InRange(result.posts[i])

C1_Witness ==
    /\ pc = "returned"
    /\ result.posts # <<>>
    /\ \E i \in 1..Len(Stream(pages)) : TooOld(Stream(pages)[i])
    /\ \E i \in 1..Len(Stream(pages)) : Stream(pages)[i].create_at > end_timestamp

\* C2: when the server lists the channel newest-first and the channel did not
\* change during the call, the returned list is exactly the channel's posts
\* with start_timestamp <= create_at <= end_timestamp, once each, in the
\* server's order.
C2_ExactlyTheRange ==
    (pc = "returned" /\ ~changed /\ NewestFirst(channel))
        => result.posts = SelectSeq(channel, InRange)

C2_Witness ==
    /\ pc = "returned" /\ ~changed /\ NewestFirst(channel)
    /\ Len(requests) >= 2
    /\ Len(result.posts) >= 2
    /\ \E i \in 1..Len(channel) : TooOld(channel[i])

\* C3: once a fetched page holds a post with create_at < start_timestamp, the
\* call has returned, that page is the last one requested, and the result
\* holds only posts met before that post.
FirstOld(st) == CHOOSE i \in 1..Len(st) : TooOld(st[i]) /\ \A j \in 1..(i - 1) : ~TooOld(st[j])

C3_EarlyExit ==
    LET st == Stream(pages) IN
    (\E i \in 1..Len(st) : TooOld(st[i])) =>
        /\ pc = "returned"
        /\ Len(requests) = Len(pages)
        /\ FirstOld(st) > Len(st) - Len(PagePosts(pages[Len(pages)]))
        /\ result.posts = SelectSeq(SubSeq(st, 1, FirstOld(st) - 1), InRange)

C3_Witness ==
    LET st == Stream(pages) IN
    /\ \E i \in 1..Len(st) : TooOld(st[i])
    /\ FirstOld(st) < Len(st)
    /\ InRange(st[Len(st)])
    /\ Len(channel) > Len(st)

\* C4: a call on a finite channel ends, and when it has ended every page
\* before the last one received was full, and a last page that is empty or
\* shorter than per_page was followed by no further request.
ShortPage(data) == Len(data.order) < per_page

C4_StopsAtShortPage ==
    /\ \A k \in 1..(Len(pages) - 1) : ~ShortPage(pages[k])
    /\ (pages # <<>> /\ ShortPage(pages[Len(pages)]))
           => (pc = "returned" /\ Len(requests) = Len(pages))

C4_Terminates == <>(pc # "loop" /\ C4_StopsAtShortPage)

C4_Witness ==
    /\ pc = "returned"
    /\ Len(pages) >= 2
    /\ ShortPage(pages[Len(pages)])
    /\ \A i \in 1..Len(Stream(pages)) : ~TooOld(Stream(pages)[i])

\* C5: a failed page request ends the call with an exception and no post
\* list, also after successful pages; the pages requested are 0, 1, ... up
\* to the failed one, each once.
C5_FailureAborts ==
    (Len(requests) # Len(pages)) =>
        /\ pc = "raised"
        /\ result.kind = "raise"
        /\ "posts" \notin DOMAIN result
        /\ requests = [i \in 1..(Len(pages) + 1) |-> PageRequest(i - 1, per_page)]

C5_Witness ==
    /\ pc = "raised"
    /\ Len(pages) >= 1
    /\ all_posts # <<>>
    /\ Len(channel) > Len(Stream(pages))

\* C20: the per_page sent in every page request of get_channel_posts is at
\* most 200, whatever page size the caller passes.
C20_PerPageCeiling ==
    \A i \in 1..Len(requests) : requests[i].per_page <= PerPageMax

\* C21: within one get_channel_posts call the page indices requested are
\* 0, 1, 2, ... in strictly increasing order without gaps, and no page index
\* is requested twice.
C21_PagesInOrder ==
    /\ \A i \in 1..Len(requests) : requests[i].page = i - 1
    /\ \A i \in 1..Len(requests), j \in 1..Len(requests) :
          i < j => requests[i].page < requests[j].page

C21_Witness ==
    /\ pc = "raised"
    /\ changed
    /\ Len(requests) = 3
    /\ requests[3].page = 2
    /\ Len(pages) = 2

\* C27: every post id appears at most once in the list get_channel_posts
\* returns, also when posts are added to the channel between two page
\* requests of the call.
C27_NoDuplicateIds ==
    result.kind = "return" =>
        \A i \in 1..Len(result.posts), j \in 1..Len(result.posts) :
            i # j => result.posts[i].id # result.posts[j].id

(***************************************************************************)
(* The period of a call: start_date and end_date as datetimes              *)
(***************************************************************************)
\* A naive datetime; day counts the calendar days from a first day 0.
datetime(day, hour, minute, second, microsecond) ==
    [day |-> day, hour |-> hour, minute |-> minute, second |-> second,
     microsecond |-> microsecond]

\* datetime.min.time() and datetime.max.time()
min_time == [hour |-> 0, minute |-> 0, second |-> 0, microsecond |-> 0]
max_time == [hour |-> 23, minute |-> 59, second |-> 59, microsecond |-> 999999]

\* datetime.combine(date, time)
combine(date, time) == datetime(date, time.hour, time.minute, time.second, time.microsecond)

\* dt.replace(hour=23, minute=59, second=59): the microsecond stays as it is
replace(dt, hour, minute, second) ==
    [dt EXCEPT !.hour = hour, !.minute = minute, !.second = second]

\* int(dt.timestamp() * 1000): the milliseconds from 00:00:00 of day 0, the
\* part of the microseconds below one millisecond cut off
timestamp_ms(dt) ==
    dt.day * 86400000 + dt.hour * 3600000 + dt.minute * 60000 + dt.second * 1000
        + (dt.microsecond \div 1000)

\* The end dates a call is made with: the end of a picked day as the tabs
\* build it, its midnight, a moment during the day.
EndDates == {combine(1, max_time), combine(1, min_time), datetime(1, 12, 30, 15, 500000)}

\* The start dates: midnight of the end day or of the day before.
StartDates == {combine(1, min_time), combine(0, min_time)}

\* When the posts of the channel were created: around the end of day 1.
Instants ==
    {timestamp_ms(dt) : dt \in {datetime(2, 0, 0, 0, 0), datetime(1, 23, 59, 59, 999000),
                                datetime(1, 23, 59, 59, 500000), datetime(1, 23, 59, 59, 0),
                                datetime(1, 12, 0, 0, 0), datetime(1, 0, 0, 0, 0),
                                datetime(0, 23, 59, 59, 999000)}}

\* Channels of one or two posts, listed newest first.
DatedChannels ==
    {<<>>} \cup {<<Post(1, t)>> : t \in Instants}
        \cup {c \in {<<Post(1, t), Post(2, u)>> : t \in Instants, u \in Instants} :
                  c[2].create_at <= c[1].create_at}

\* A caller invokes get_channel_posts with datetimes: the conversion of the
\* two dates to millisecond timestamps, then the state before the first request.
CallWithDates(start_date, end_date, n) ==
    /\ pc = "idle"
    /\ pc' = "loop"
    /\ dates' = [start_date |-> start_date, end_date |-> end_date]
    /\ start_timestamp' = timestamp_ms(start_date)
    /\ end_timestamp' = timestamp_ms(replace(end_date, 23, 59, 59))
    /\ per_page' = n
    /\ page' = 0
    /\ all_posts' = <<>>
    /\ requests' = <<>>
    /\ pages' = <<>>
    /\ result' = NoResult
    /\ UNCHANGED <<channel, changed>>
    /\ UNCHANGED <<errvars, envars, fnvars, tabvars, msgvars>>

DateInit ==
    /\ channel \in DatedChannels
    /\ changed = FALSE
    /\ pc = "idle"
    /\ start_timestamp = 0
    /\ end_timestamp = 0
    /\ per_page = 1
    /\ page = 0
    /\ all_posts = <<>>
    /\ requests = <<>>
    /\ pages = <<>>
    /\ result = NoResult
    /\ dates = None
    /\ err_log = <<>>
    /\ MsgIdle
    /\ posts = <<>>
    /\ heap = <<>>
    /\ heap0 = <<>>
    /\ enriched_posts = <<>>
    /\ epc = "returned"
    /\ thread_log = <<>>
    /\ req_log = <<>>
    /\ thread_call = None
    /\ FnIdle
    /\ TabIdle

DateNext ==
    \/ \E start_date \in StartDates, end_date \in EndDates, n \in {1, 2} :
           CallWithDates(start_date, end_date, n)
    \/ PageOk
    \/ PageFail(TimeoutFailure)

DateSpec == DateInit /\ [][DateNext]_vars

\* create_at lies on the calendar day of dt
OnDayOf(dt, create_at) ==
    /\ timestamp_ms(combine(dt.day, min_time)) <= create_at
    /\ create_at <= timestamp_ms(combine(dt.day, max_time))

ErrEntry(op, f, e) == [op |-> op, failure |-> f, error |-> e]

\* the page request of get_channel_posts fails
ChannelPostsFails(f) ==
    /\ Len(err_log) < MaxErrLog
    /\ err_log' = Append(err_log, ErrEntry("get_channel_posts", f, ChannelPostsError(f)))
    /\ UNCHANGED <<pvars, envars, fnvars, tabvars, msgvars>>

\* the request of get_thread_posts fails
ThreadPostsFails(f) ==
    /\ Len(err_log) < MaxErrLog
    /\ err_log' = Append(err_log, ErrEntry("get_thread_posts", f, ThreadPostsError(f)))
    /\ UNCHANGED <<pvars, envars, fnvars, tabvars, msgvars>>

\* the request of get_reactions fails
ReactionsFails(f) ==
    /\ Len(err_log) < MaxErrLog
    /\ err_log' = Append(err_log, ErrEntry("get_reactions", f, ReactionsError(f)))
    /\ UNCHANGED <<pvars, envars, fnvars, tabvars, msgvars>>

ErrInit ==
    /\ channel = <<>>
    /\ changed = FALSE
    /\ pc = "idle"
    /\ start_timestamp = 0
    /\ end_timestamp = 0
    /\ per_page = 1
    /\ page = 0
    /\ all_posts = <<>>
    /\ requests = <<>>
    /\ pages = <<>>
    /\ result = NoResult
    /\ dates = None
    /\ err_log = <<>>
    /\ MsgIdle
    /\ posts = <<>>
    /\ heap = <<>>
    /\ heap0 = <<>>
    /\ enriched_posts = <<>>
    /\ epc = "returned"
    /\ thread_log = <<>>
    /\ req_log = <<>>
    /\ thread_call = None
    /\ FnIdle
    /\ TabIdle

ErrNext ==
    \/ \E f \in TransportFailures : ChannelPostsFails(f)
    \/ \E f \in TransportFailures : ThreadPostsFails(f)
    \/ \E f \in TransportFailures : ReactionsFails(f)

ErrSpec == ErrInit /\ [][ErrNext]_vars

\* the failure kinds of the transport
FailureKind(f) ==
    IF f.kind = "http" THEN
        IF f.status_code = 401 THEN "Unauthorized"
        ELSE IF f.status_code = 403 THEN "Forbidden"
        ELSE IF f.status_code = 404 THEN "NotFound"
        ELSE "ServerError"
    ELSE IF f.kind = "timeout" THEN "Timeout"
    ELSE "ConnectionError"

\* C6: every fetch function reports 401, 403, 404, any other non-2xx status,
\* a timeout and a connection failure each with a message of its own, and the
\* message for another non-2xx status carries the status code and the body.
C6_OwnFailureKinds ==
    /\ \A i \in 1..Len(err_log), j \in 1..Len(err_log) :
           (err_log[i].op = err_log[j].op
               /\ FailureKind(err_log[i].failure) # FailureKind(err_log[j].failure))
             => err_log[i].error.msg # err_log[j].error.msg
    /\ \A i \in 1..Len(err_log) :
           FailureKind(err_log[i].failure) = "ServerError"
             => err_log[i].error.args
                  = <<err_log[i].failure.status_code, err_log[i].failure.text>>

(***************************************************************************)
(* Thread fetches: get_thread_posts, get_reactions, get_thread_reactions   *)
(***************************************************************************)
Reaction(emoji_name, user_id) == [emoji_name |-> emoji_name, user_id |-> user_id]
Eyes == Reaction("eyes", "u1")
Leaves == Reaction("leaves", "u2")

Ok(json) == [kind |-> "ok", json |-> json]
Fail(f) == [kind |-> "fail", failure |-> f]

Null == [null |-> TRUE]
JsonList(list) == [null |-> FALSE, list |-> list]
JsonThread(order) == [null |-> FALSE, order |-> order]

\* failures of the requests made while enriching
EnrichFailures == {[kind |-> "http", status_code |-> 404, text |-> "oops"], TimeoutFailure}

\* answers to GET /posts/{id}/thread
ThreadResponses ==
    {Ok(Null)} \cup {Ok(JsonThread([k \in 1..n |-> k])) : n \in 0..MaxThread}
        \cup {Fail(f) : f \in EnrichFailures}

\* answers to GET /posts/{id}/reactions
ReactionResponses ==
    {Ok(Null), Ok(JsonList(<<Eyes>>)), Ok(JsonList(<<Leaves>>))}
        \cup {Fail(f) : f \in EnrichFailures}

\* answers to the reaction requests made for one thread
ReactionAnswers == SeqsUpTo(ReactionResponses, MaxThread)

Value(v) == [raised |-> FALSE, value |-> v]
Raise(e) == [raised |-> TRUE, error |-> e]

get_thread_posts(resp) ==
    IF resp.kind = "ok" THEN Value(resp.json) ELSE Raise(ThreadPostsError(resp.failure))

get_reactions(resp) ==
    IF resp.kind = "ok" THEN Value(resp.json) ELSE Raise(ReactionsError(resp.failure))

\* `if reactions:` for the JSON value of a reactions answer
Truthy(json) == ~json.null /\ json.list # <<>>

RECURSIVE Dedup(_, _)
Dedup(list, seen) ==
    IF list = <<>> THEN <<>>
    ELSE IF Head(list) \in seen THEN Dedup(Tail(list), seen)
    ELSE <<Head(list)>> \o Dedup(Tail(list), seen \cup {Head(list)})

\* CollectReactions dropping a reaction the list already holds.
RECURSIVE CollectReactions_Dedup(_, _, _, _)
CollectReactions_Dedup(order, rresps, i, all_reactions) ==
    IF i > Len(order) THEN Value(Dedup(all_reactions, {}))
    ELSE LET reactions == get_reactions(rresps[i]) IN
         IF reactions.raised THEN reactions
         ELSE CollectReactions_Dedup(order, rresps, i + 1,
                  IF Truthy(reactions.value)
                  THEN all_reactions \o reactions.value.list ELSE all_reactions)

\* the for-loop of get_thread_reactions; rresps[i] answers its i-th request
RECURSIVE CollectReactions(_, _, _, _)
CollectReactions(order, rresps, i, all_reactions) ==
    IF i > Len(order) THEN Value(all_reactions)
    ELSE LET reactions == get_reactions(rresps[i]) IN
         IF reactions.raised THEN reactions
         ELSE CollectReactions(order, rresps, i + 1,
                  IF Truthy(reactions.value)
                  THEN all_reactions \o reactions.value.list ELSE all_reactions)

\* get_thread_reactions(..., include_replies=True)
get_thread_reactions(tresp, rresps) ==
    LET thread_data == get_thread_posts(tresp) IN
    IF thread_data.raised THEN thread_data
    ELSE IF thread_data.value.null THEN Value(<<>>)
    ELSE CollectReactions(thread_data.value.order, rresps, 1, <<>>)

\* rresps are the answers to exactly the reaction requests the code makes
\* after the thread answer tresp: one per entry of order, up to the first failure.
Issued(tresp, rresps) ==
    IF tresp.kind = "fail" \/ tresp.json.null THEN rresps = <<>>
    ELSE /\ Len(rresps) <= Len(tresp.json.order)
         /\ \A i \in 1..(Len(rresps) - 1) : rresps[i].kind = "ok"
         /\ \/ Len(rresps) = Len(tresp.json.order)
            \/ rresps # <<>> /\ rresps[Len(rresps)].kind = "fail"

(***************************************************************************)
(* enrich_posts_with_thread_reactions                                      *)
(***************************************************************************)
\* A metadata dict: the key 'reactions' may be missing.
Metadata(has_reactions, reactions) == [has_reactions |-> has_reactions, reactions |-> reactions]

InputMetadata == {Metadata(FALSE, <<>>), Metadata(TRUE, <<Eyes>>)}

\* Argument lists.  A post dict may lack the keys 'id' and 'metadata'; metadata
\* is the address of the nested dict.  Post i is a dict of its own, with a
\* metadata dict of its own.
InputPosts(n) ==
    {ps \in [1..n -> [has_id : BOOLEAN, id : 1..n, has_metadata : BOOLEAN, metadata : 1..n]] :
        \A i \in 1..n : ps[i].id = i /\ ps[i].metadata = i}

\* The reactions the answered requests returned, in the order of the requests.
RECURSIVE Flatten(_)
Flatten(rresps) ==
    IF rresps = <<>> THEN <<>>
    ELSE (IF Head(rresps).json.null THEN <<>> ELSE Head(rresps).json.list)
             \o Flatten(Tail(rresps))

RECURSIVE SumLens(_)
SumLens(rresps) ==
    IF rresps = <<>> THEN 0
    ELSE (IF Head(rresps).json.null THEN 0 ELSE Len(Head(rresps).json.list))
             + SumLens(Tail(rresps))

\* What the server answered for one post: whether a request failed and, if
\* none did, the reactions the thread's posts carry and how many they are.
LogEntry(skipped, tresp, rresps) ==
    LET any_failed == tresp.kind = "fail" \/ \E i \in 1..Len(rresps) : rresps[i].kind = "fail"
    IN [skipped |-> skipped,
        failed |-> any_failed,
        fetched |-> IF any_failed THEN <<>> ELSE Flatten(rresps),
        count |-> IF any_failed THEN 0 ELSE SumLens(rresps)]

\* One iteration for a post without an id.
PassThrough ==
    /\ epc = "loop"
    /\ Len(enriched_posts) < Len(posts)
    /\ LET post == posts[Len(enriched_posts) + 1] IN
       /\ ~post.has_id
       /\ enriched_posts' = Append(enriched_posts, post)
       /\ thread_log' = Append(thread_log, LogEntry(TRUE, Ok(Null), <<>>))
    /\ UNCHANGED <<posts, heap, heap0, epc, req_log, thread_call>>
    /\ UNCHANGED <<pvars, errvars, fnvars, tabvars, msgvars>>

\* EnrichPost leaving the loop when the thread of a post cannot be fetched.
EnrichPost_AbortOnFailure ==
    /\ epc = "loop"
    /\ Len(enriched_posts) < Len(posts)
    /\ posts[Len(enriched_posts) + 1].has_id
    /\ \E tresp \in ThreadResponses, rresps \in ReactionAnswers :
         /\ Issued(tresp, rresps)
         /\ LET post == posts[Len(enriched_posts) + 1]
                enriched_post == post
                thread_reactions == get_thread_reactions(tresp, rresps)
                fresh == Len(posts) + Len(enriched_posts) + 1
            IN /\ thread_log' = Append(thread_log, LogEntry(FALSE, tresp, rresps))
               /\ IF thread_reactions.raised THEN
                      /\ epc' = "returned"
                      /\ UNCHANGED <<heap, enriched_posts>>
                  ELSE IF thread_reactions.value = <<>> THEN
                      /\ enriched_posts' = Append(enriched_posts, enriched_post)
                      /\ UNCHANGED <<heap, epc>>
                  ELSE IF ~enriched_post.has_metadata THEN
                      /\ heap' = (fresh :> Metadata(TRUE, thread_reactions.value)) @@ heap
                      /\ enriched_posts' =
                             Append(enriched_posts,
                                    [enriched_post EXCEPT !.has_metadata = TRUE,
                                                          !.metadata = fresh])
                      /\ UNCHANGED epc
                  ELSE
                      /\ heap' = [heap EXCEPT
                                    ![enriched_post.metadata].has_reactions = TRUE,
                                    ![enriched_post.metadata].reactions = thread_reactions.value]
                      /\ enriched_posts' = Append(enriched_posts, enriched_post)
                      /\ UNCHANGED epc
    /\ UNCHANGED <<posts, heap0, req_log, thread_call>>
    /\ UNCHANGED <<pvars, errvars, fnvars, tabvars, msgvars>>

\* One iteration for a post with an id: post.copy() (the copy shares the
\* metadata dict of the post), the thread fetch answered by tresp and rresps,
\* the assignment into the copy's metadata, the append.
EnrichPostWith(tresp, rresps) ==
    LET post == posts[Len(enriched_posts) + 1]
        enriched_post == post
        thread_reactions == get_thread_reactions(tresp, rresps)
        fresh == Len(posts) + Len(enriched_posts) + 1
    IN /\ thread_log' = Append(thread_log, LogEntry(FALSE, tresp, rresps))
       /\ IF thread_reactions.raised \/ thread_reactions.value = <<>> THEN
              /\ enriched_posts' = Append(enriched_posts, enriched_post)
              /\ UNCHANGED heap
          ELSE IF ~enriched_post.has_metadata THEN
              /\ heap' = (fresh :> Metadata(TRUE, thread_reactions.value)) @@ heap
              /\ enriched_posts' =
                     Append(enriched_posts,
                            [enriched_post EXCEPT !.has_metadata = TRUE,
                                                  !.metadata = fresh])
          ELSE
              /\ heap' = [heap EXCEPT
                            ![enriched_post.metadata].has_reactions = TRUE,
                            ![enriched_post.metadata].reactions = thread_reactions.value]
              /\ enriched_posts' = Append(enriched_posts, enriched_post)

\* One iteration for a post with an id, from the thread request to the append.
EnrichPost ==
    /\ epc = "loop"
    /\ Len(enriched_posts) < Len(posts)
    /\ posts[Len(enriched_posts) + 1].has_id
    /\ \E tresp \in ThreadResponses, rresps \in ReactionAnswers :
         /\ Issued(tresp, rresps)
         /\ EnrichPostWith(tresp, rresps)
    /\ UNCHANGED <<posts, heap0, epc, req_log, thread_call>>
    /\ UNCHANGED <<pvars, errvars, fnvars, tabvars, msgvars>>

\* The loop is over: return enriched_posts.
ReturnEnriched ==
    /\ epc = "loop"
    /\ Len(enriched_posts) = Len(posts)
    /\ epc' = "returned"
    /\ UNCHANGED <<posts, heap, heap0, enriched_posts, thread_log, req_log, thread_call>>
    /\ UNCHANGED <<pvars, errvars, fnvars, tabvars, msgvars>>

\* The state when enrich_posts_with_thread_reactions is entered.
EnrichInit ==
    /\ channel = <<>>
    /\ changed = FALSE
    /\ pc = "idle"
    /\ start_timestamp = 0
    /\ end_timestamp = 0
    /\ per_page = 1
    /\ page = 0
    /\ all_posts = <<>>
    /\ requests = <<>>
    /\ pages = <<>>
    /\ result = NoResult
    /\ dates = None
    /\ err_log = <<>>
    /\ MsgIdle
    /\ \E n \in 0..MaxEnrich :
         /\ posts \in InputPosts(n)
         /\ heap \in [{i \in 1..n : posts[i].has_metadata} -> InputMetadata]
    /\ heap0 = heap
    /\ enriched_posts = <<>>
    /\ epc = "loop"
    /\ thread_log = <<>>
    /\ req_log = <<>>
    /\ thread_call = None
    /\ FnIdle
    /\ TabIdle

EnrichNext ==
    \/ PassThrough
    \/ EnrichPost
    \/ ReturnEnriched

EnrichSpec == EnrichInit /\ [][EnrichNext]_vars

(***************************************************************************)
(* Properties of enrich_posts_with_thread_reactions                        *)
(***************************************************************************)
\* post.get('metadata', {}).get('reactions', []) with the dicts of heap h
ReactionsIn(post, h) ==
    IF post.has_metadata /\ h[post.metadata].has_reactions
    THEN h[post.metadata].reactions ELSE <<>>

\* everything a post dict holds, nested metadata included
ContentOf(post, h) ==
    [has_id |-> post.has_id, id |-> post.id, has_metadata |-> post.has_metadata,
     metadata |-> IF post.has_metadata THEN h[post.metadata] ELSE Metadata(FALSE, <<>>)]

Processed == 1..Len(thread_log)

\* a request made for post i failed
Failed(i) == ~thread_log[i].skipped /\ thread_log[i].failed

\* the thread of post i and all reactions of its posts were fetched
Succeeded(i) == ~thread_log[i].skipped /\ ~thread_log[i].failed

Fetched(i) == thread_log[i].fetched

\* C7: whichever thread or reaction fetches fail, the returned list has the
\* length and order of the input, a post whose fetch failed is returned with
\* its original content, and posts after it are still enriched.
C7_Resilient ==
    /\ epc = "returned" => Len(enriched_posts) = Len(posts)
    /\ Len(enriched_posts) = Len(thread_log)
    /\ \A i \in Processed :
          /\ enriched_posts[i].has_id = posts[i].has_id
          /\ enriched_posts[i].id = posts[i].id
          /\ Failed(i) => ContentOf(enriched_posts[i], heap) = ContentOf(posts[i], heap0)
          /\ \A j \in 1..(i - 1) :
                (Failed(j) /\ Succeeded(i) /\ Fetched(i) # <<>>)
                    => ReactionsIn(enriched_posts[i], heap) = Fetched(i)

C7_Witness ==
    /\ epc = "returned"
    /\ \E j \in Processed, i \in Processed :
          /\ j < i
          /\ Failed(j)
          /\ ReactionsIn(posts[j], heap0) # <<>>
          /\ Succeeded(i)
          /\ Fetched(i) # <<>>
          /\ Fetched(i) # ReactionsIn(posts[i], heap0)

\* C8: after the call every input post, nested metadata and reaction list
\* included, has the content it had before the call.
C8_InputNotMutated ==
    \A i \in 1..Len(posts) : ContentOf(posts[i], heap) = ContentOf(posts[i], heap0)

\* C9: for a post whose thread was fetched with at least one reaction, the
\* returned reactions are the concatenation, in thread order, of the reactions
\* of the thread's posts, duplicates kept.
C9_Concatenation ==
    \A i \in Processed :
        (Succeeded(i) /\ Fetched(i) # <<>>) =>
            /\ ReactionsIn(enriched_posts[i], heap) = Fetched(i)
            /\ Len(ReactionsIn(enriched_posts[i], heap)) = thread_log[i].count

C9_Witness ==
    /\ epc = "returned"
    /\ \E i \in Processed :
          /\ Succeeded(i)
          /\ ReactionsIn(posts[i], heap0) = <<>>
          /\ ReactionsIn(enriched_posts[i], heap) = <<Eyes, Eyes>>

\* C10: for a post whose thread fetch succeeds, the returned post holds no
\* reaction that the thread's reaction fetches did not return, also when
\* they returned none.
C10_ReplacedByThread ==
    \A i \in Processed :
        Succeeded(i) =>
            \A k \in 1..Len(ReactionsIn(enriched_posts[i], heap)) :
                \E m \in 1..Len(Fetched(i)) :
                    ReactionsIn(enriched_posts[i], heap)[k] = Fetched(i)[m]

(***************************************************************************)
(* The requests of enrich_posts_with_thread_reactions, one at a time       *)
(***************************************************************************)
\* What req_log records: a request going out, its answer or its failure.
RequestEvent(event, request, post_id) ==
    [event |-> event, request |-> request, post_id |-> post_id]

\* Answers to the thread request and to a reaction request.
SequencedThreadResponses ==
    {Ok(Null), Fail(TimeoutFailure)} \cup {Ok(JsonThread([k \in 1..n |-> k])) : n \in 0..MaxThread}
SequencedReactionResponses == {Ok(JsonList(<<Eyes>>)), Fail(TimeoutFailure)}

Outcome(resp) == IF resp.kind = "ok" THEN "answered" ELSE "failed"

\* The iteration of the post under way is over: the append, back to the loop.
FinishPost(tresp, rresps) ==
    /\ EnrichPostWith(tresp, rresps)
    /\ epc' = "loop"
    /\ thread_call' = None

\* IssueThreadFetch without the test `if not post_id`.
IssueThreadFetch_AnyPost ==
    /\ epc = "loop"
    /\ Len(enriched_posts) < Len(posts)
    /\ LET post == posts[Len(enriched_posts) + 1] IN
       req_log' = Append(req_log, RequestEvent("issued", "thread", post.id))
    /\ epc' = "thread"
    /\ UNCHANGED <<posts, heap, heap0, enriched_posts, thread_log, thread_call>>
    /\ UNCHANGED <<pvars, errvars, fnvars, tabvars, msgvars>>

\* get_thread_posts sends GET /posts/{id}/thread for a post with an id.
IssueThreadFetch ==
    /\ epc = "loop"
    /\ Len(enriched_posts) < Len(posts)
    /\ LET post == posts[Len(enriched_posts) + 1] IN
       /\ post.has_id
       /\ req_log' = Append(req_log, RequestEvent("issued", "thread", post.id))
    /\ epc' = "thread"
    /\ UNCHANGED <<posts, heap, heap0, enriched_posts, thread_log, thread_call>>
    /\ UNCHANGED <<pvars, errvars, fnvars, tabvars, msgvars>>

\* The thread request is answered or fails; without a thread to go through
\* the post is done.
ThreadAnswered(tresp) ==
    /\ epc = "thread"
    /\ LET post == posts[Len(enriched_posts) + 1] IN
       /\ req_log' = Append(req_log, RequestEvent(Outcome(tresp), "thread", post.id))
       /\ IF tresp.kind = "fail" \/ tresp.json.null \/ tresp.json.order = <<>> THEN
              FinishPost(tresp, <<>>)
          ELSE
              /\ epc' = "reactions"
              /\ thread_call' = [tresp |-> tresp, rresps |-> <<>>]
              /\ UNCHANGED <<heap, enriched_posts, thread_log>>
    /\ UNCHANGED <<posts, heap0>>
    /\ UNCHANGED <<pvars, errvars, fnvars, tabvars, msgvars>>

\* get_reactions sends GET /posts/{id}/reactions for the next post of the thread.
IssueReactionFetch ==
    /\ epc = "reactions"
    /\ LET post == posts[Len(enriched_posts) + 1] IN
       req_log' = Append(req_log, RequestEvent("issued", "reactions", post.id))
    /\ epc' = "reaction"
    /\ UNCHANGED <<posts, heap, heap0, enriched_posts, thread_log, thread_call>>
    /\ UNCHANGED <<pvars, errvars, fnvars, tabvars, msgvars>>

\* The reaction request is answered or fails; after a failure or the last
\* post of the thread the post is done.
ReactionAnswered(rresp) ==
    /\ epc = "reaction"
    /\ LET post == posts[Len(enriched_posts) + 1]
           rresps == Append(thread_call.rresps, rresp)
       IN /\ req_log' = Append(req_log, RequestEvent(Outcome(rresp), "reactions", post.id))
          /\ IF rresp.kind = "fail" \/ Len(rresps) = Len(thread_call.tresp.json.order) THEN
                 FinishPost(thread_call.tresp, rresps)
             ELSE
                 /\ epc' = "reactions"
                 /\ thread_call' = [thread_call EXCEPT !.rresps = rresps]
                 /\ UNCHANGED <<heap, enriched_posts, thread_log>>
    /\ UNCHANGED <<posts, heap0>>
    /\ UNCHANGED <<pvars, errvars, fnvars, tabvars, msgvars>>

\* The state when enrich_posts_with_thread_reactions is entered.
SequencedInit ==
    /\ channel = <<>>
    /\ changed = FALSE
    /\ pc = "idle"
    /\ start_timestamp = 0
    /\ end_timestamp = 0
    /\ per_page = 1
    /\ page = 0
    /\ all_posts = <<>>
    /\ requests = <<>>
    /\ pages = <<>>
    /\ result = NoResult
    /\ dates = None
    /\ err_log = <<>>
    /\ MsgIdle
    /\ \E n \in 0..MaxEnrich :
         /\ posts \in InputPosts(n)
         /\ heap = [i \in {k \in 1..n : posts[k].has_metadata} |-> Metadata(TRUE, <<Eyes>>)]
    /\ heap0 = heap
    /\ enriched_posts = <<>>
    /\ epc = "loop"
    /\ thread_log = <<>>
    /\ req_log = <<>>
    /\ thread_call = None
    /\ FnIdle
    /\ TabIdle

SequencedNext ==
    \/ PassThrough
    \/ IssueThreadFetch
    \/ \E tresp \in SequencedThreadResponses : ThreadAnswered(tresp)
    \/ IssueReactionFetch
    \/ \E rresp \in SequencedReactionResponses : ReactionAnswered(rresp)
    \/ ReturnEnriched

SequencedSpec == SequencedInit /\ [][SequencedNext]_vars

\* the post ids of the thread requests issued, in the order of time
ThreadFetches ==
    LET issued == SelectSeq(req_log, LAMBDA ev : ev.event = "issued" /\ ev.request = "thread")
    IN [i \in 1..Len(issued) |-> issued[i].post_id]

\* the ids of the posts with an id among the first k input posts
IdsOfFirst(k) ==
    LET with_id == SelectSeq(SubSeq(posts, 1, k), LAMBDA post : post.has_id)
    IN [i \in 1..Len(with_id) |-> with_id[i].id]

\* the input posts whose iteration has begun
Begun == Len(enriched_posts) + (IF epc \in {"loop", "returned"} THEN 0 ELSE 1)

\* C26: enrich_posts_with_thread_reactions issues exactly one thread fetch per
\* input post that has an id, in input order; every request made for one post
\* is answered or has failed before the first request for the next post is
\* issued; posts without an id cause no request.
C26_OneRequestAtATime ==
    /\ ThreadFetches = IdsOfFirst(Begun)
    /\ epc = "returned" => ThreadFetches = IdsOfFirst(Len(posts))
    /\ \A i \in 1..Len(req_log) :
          /\ posts[req_log[i].post_id].has_id
          /\ (req_log[i].event = "issued" /\ i < Len(req_log)) =>
                /\ req_log[i + 1].event \in {"answered", "failed"}
                /\ req_log[i + 1].request = req_log[i].request
                /\ req_log[i + 1].post_id = req_log[i].post_id
          /\ \A j \in 1..Len(req_log) : i < j => req_log[i].post_id <= req_log[j].post_id
          /\ (req_log[i].request = "reactions" /\ req_log[i].event = "issued") =>
                \E k \in 1..(i - 1) :
                    /\ req_log[k] = RequestEvent("answered", "thread", req_log[i].post_id)
    /\ (req_log # <<>> /\ req_log[Len(req_log)].event = "issued")
          <=> epc \in {"thread", "reaction"}

C26_Witness ==
    /\ epc = "returned"
    /\ Len(posts) = 2
    /\ ~posts[1].has_id
    /\ posts[2].has_id
    /\ Len(req_log) = 6
    /\ req_log[1] = RequestEvent("issued", "thread", 2)
    /\ req_log[4].event = "answered"
    /\ req_log[6] = RequestEvent("failed", "reactions", 2)

(***************************************************************************)
(* Emoji classifier functions: analyze_channel_emojis,                     *)
(* get_posts_without_reactions, get_posts_by_emoji, filter_root_posts_only *)
(***************************************************************************)
Range(list) == {list[i] : i \in 1..Len(list)}

\* The emoji names of the model, in the order Python compares str values.
EmojiOrder ==
    <<"", "+1", "ballot_box_with_check", "eyes", "hammer_and_wrench",
      "ice_cube", "leaves", "loading", "rocket">>

Rank(name) == CHOOSE i \in 1..Len(EmojiOrder) : EmojiOrder[i] = name

\* sorted(list(a_set))
RECURSIVE sorted(_)
sorted(S) ==
    IF S = {} THEN <<>>
    ELSE LET least == CHOOSE x \in S : \A y \in S : Rank(x) <= Rank(y)
         IN <<least>> \o sorted(S \ {least})

default_emojis ==
    <<"ballot_box_with_check", "leaves", "ice_cube", "hammer_and_wrench",
      "loading", "eyes">>

\* Reaction dicts; a reaction may come with an empty emoji_name or without one.
Eyes2 == Reaction("eyes", "u2")
Rocket == Reaction("rocket", "u1")
PlusOne == Reaction("+1", "u2")
EmptyName == Reaction("", "u1")
Unnamed == [user_id |-> "u1"]

\* Lists found under metadata['reactions'].
ArgReactionLists ==
    {<<>>, <<Eyes>>, <<Eyes, Eyes2>>, <<Leaves, Eyes>>, <<Rocket, PlusOne>>,
     <<Unnamed, EmptyName>>}

\* A post dict may lack 'metadata', its metadata may lack 'reactions'.
ArgMetadata == {EmptyDict} \cup {[reactions |-> rl] : rl \in ArgReactionLists}

\* A post dict may lack 'root_id' or carry an empty one.
ArgPostsWithId(id) ==
    LET bare == {[id |-> id]} \cup {[id |-> id, metadata |-> m] : m \in ArgMetadata}
    IN bare \cup {("root_id" :> r) @@ p : r \in {"", "p0"}, p \in bare}

\* Argument lists: post i is a dict of its own, with id i.
ArgPosts(n) ==
    IF n = 0 THEN {<<>>}
    ELSE {ps \in [1..n -> UNION {ArgPostsWithId(i) : i \in 1..n}] :
            \A i \in 1..n : ps[i].id = i}

\* post.get('metadata', {}).get('reactions', [])
ReactionsOf(post) ==
    IF Has(post, "metadata") /\ Has(post.metadata, "reactions")
    THEN post.metadata.reactions ELSE <<>>

\* AddEmojiNames without the test `if emoji_name`.
RECURSIVE AddEmojiNames_KeepEmpty(_, _, _)
AddEmojiNames_KeepEmpty(reactions, i, emojis) ==
    IF i > Len(reactions) THEN emojis
    ELSE AddEmojiNames_KeepEmpty(reactions, i + 1,
             IF Has(reactions[i], "emoji_name")
             THEN emojis \cup {reactions[i].emoji_name} ELSE emojis)

\* the inner for-loop of analyze_channel_emojis over one post's reactions
RECURSIVE AddEmojiNames(_, _, _)
AddEmojiNames(reactions, i, emojis) ==
    IF i > Len(reactions) THEN emojis
    ELSE LET reaction == reactions[i] IN
         AddEmojiNames(reactions, i + 1,
             IF Has(reaction, "emoji_name") /\ reaction.emoji_name # ""
             THEN emojis \cup {reaction.emoji_name} ELSE emojis)

\* the outer for-loop of analyze_channel_emojis
RECURSIVE ScanEmojis(_, _, _)
ScanEmojis(posts_arg, i, emojis) ==
    IF i > Len(posts_arg) THEN emojis
    ELSE ScanEmojis(posts_arg, i + 1, AddEmojiNames(ReactionsOf(posts_arg[i]), 1, emojis))

analyze_channel_emojis(posts_arg) ==
    LET emojis == ScanEmojis(posts_arg, 1, {})
        all_emojis == emojis \cup Range(default_emojis)
    IN sorted(all_emojis)

\* get_posts_without_reactions keeping only posts without a 'reactions' key.
RECURSIVE WithoutReactionsLoop_AbsentOnly(_, _, _)
WithoutReactionsLoop_AbsentOnly(posts_arg, i, posts_without_reactions) ==
    IF i > Len(posts_arg) THEN posts_without_reactions
    ELSE LET post == posts_arg[i] IN
         WithoutReactionsLoop_AbsentOnly(posts_arg, i + 1,
             IF ~(Has(post, "metadata") /\ Has(post.metadata, "reactions"))
             THEN Append(posts_without_reactions, post)
             ELSE posts_without_reactions)

\* the for-loop of get_posts_without_reactions: `if not reactions`
RECURSIVE WithoutReactionsLoop(_, _, _)
WithoutReactionsLoop(posts_arg, i, posts_without_reactions) ==
    IF i > Len(posts_arg) THEN posts_without_reactions
    ELSE LET post == posts_arg[i]
             reactions == ReactionsOf(post)
         IN WithoutReactionsLoop(posts_arg, i + 1,
                IF reactions = <<>>
                THEN Append(posts_without_reactions, post)
                ELSE posts_without_reactions)

get_posts_without_reactions(posts_arg) == WithoutReactionsLoop(posts_arg, 1, <<>>)

\* sum(1 for r in reactions if r.get('emoji_name') == emoji_name)
RECURSIVE CountEmoji(_, _)
CountEmoji(reactions, emoji_name) ==
    IF reactions = <<>> THEN 0
    ELSE (IF Has(Head(reactions), "emoji_name") /\ Head(reactions).emoji_name = emoji_name
          THEN 1 ELSE 0)
             + CountEmoji(Tail(reactions), emoji_name)

\* ByEmojiLoop writing emoji_count into the post itself instead of a copy.
RECURSIVE ByEmojiLoop_NoCopy(_, _, _, _)
ByEmojiLoop_NoCopy(posts_arg, emoji_name, i, posts_with_emoji) ==
    IF i > Len(posts_arg) THEN [posts |-> posts_arg, value |-> posts_with_emoji]
    ELSE LET post == posts_arg[i]
             emoji_count == CountEmoji(ReactionsOf(post), emoji_name)
             annotated == ("emoji_count" :> emoji_count) @@ post
         IN IF emoji_count > 0
            THEN ByEmojiLoop_NoCopy([posts_arg EXCEPT ![i] = annotated], emoji_name, i + 1,
                                    Append(posts_with_emoji, annotated))
            ELSE ByEmojiLoop_NoCopy(posts_arg, emoji_name, i + 1, posts_with_emoji)

\* ByEmojiLoop annotating a post with the number of all its reactions.
RECURSIVE ByEmojiLoop_TotalCount(_, _, _, _)
ByEmojiLoop_TotalCount(posts_arg, emoji_name, i, posts_with_emoji) ==
    IF i > Len(posts_arg) THEN [posts |-> posts_arg, value |-> posts_with_emoji]
    ELSE LET post == posts_arg[i]
             emoji_count == CountEmoji(ReactionsOf(post), emoji_name)
             post_copy == ("emoji_count" :> Len(ReactionsOf(post))) @@ post
         IN IF emoji_count > 0
            THEN ByEmojiLoop_TotalCount(posts_arg, emoji_name, i + 1,
                                        Append(posts_with_emoji, post_copy))
            ELSE ByEmojiLoop_TotalCount(posts_arg, emoji_name, i + 1, posts_with_emoji)

\* the for-loop of get_posts_by_emoji.  post.copy() is a new dict with the
\* keys of post; emoji_count is assigned in the copy.  The loop yields the
\* argument list as the call leaves it and the list it returns.
RECURSIVE ByEmojiLoop(_, _, _, _)
ByEmojiLoop(posts_arg, emoji_name, i, posts_with_emoji) ==
    IF i > Len(posts_arg) THEN [posts |-> posts_arg, value |-> posts_with_emoji]
    ELSE LET post == posts_arg[i]
             reactions == ReactionsOf(post)
             emoji_count == CountEmoji(reactions, emoji_name)
             post_copy == ("emoji_count" :> emoji_count) @@ post
         IN IF emoji_count > 0
            THEN ByEmojiLoop(posts_arg, emoji_name, i + 1, Append(posts_with_emoji, post_copy))
            ELSE ByEmojiLoop(posts_arg, emoji_name, i + 1, posts_with_emoji)

get_posts_by_emoji(posts_arg, emoji_name) == ByEmojiLoop(posts_arg, emoji_name, 1, <<>>).value

\* filter_root_posts_only dropping a post whose root_id is the empty string.
filter_root_posts_only_AbsentOnly(posts_arg) ==
    SelectSeq(posts_arg, LAMBDA post : ~Has(post, "root_id"))

\* [post for post in posts if not post.get('root_id')]
filter_root_posts_only(posts_arg) ==
    SelectSeq(posts_arg, LAMBDA post : ~(Has(post, "root_id") /\ post.root_id # ""))

\* The emoji names a caller asks get_posts_by_emoji for.
EmojiArgs == {"eyes", "leaves", "rocket"}

CallAnalyzeChannelEmojis ==
    /\ ret = NoCall
    /\ ret' = [fn |-> "analyze_channel_emojis", value |-> analyze_channel_emojis(arg_posts)]
    /\ UNCHANGED <<arg_posts, arg_posts0>>
    /\ UNCHANGED <<pvars, errvars, envars, tabvars, msgvars>>

CallPostsWithoutReactions ==
    /\ ret = NoCall
    /\ ret' = [fn |-> "get_posts_without_reactions",
               value |-> get_posts_without_reactions(arg_posts)]
    /\ UNCHANGED <<arg_posts, arg_posts0>>
    /\ UNCHANGED <<pvars, errvars, envars, tabvars, msgvars>>

CallPostsByEmoji(emoji_name) ==
    /\ ret = NoCall
    /\ LET call == ByEmojiLoop(arg_posts, emoji_name, 1, <<>>)
       IN /\ arg_posts' = call.posts
          /\ ret' = [fn |-> "get_posts_by_emoji", emoji_name |-> emoji_name,
                     value |-> call.value]
    /\ UNCHANGED arg_posts0
    /\ UNCHANGED <<pvars, errvars, envars, tabvars, msgvars>>

CallFilterRootPostsOnly ==
    /\ ret = NoCall
    /\ ret' = [fn |-> "filter_root_posts_only", value |-> filter_root_posts_only(arg_posts)]
    /\ UNCHANGED <<arg_posts, arg_posts0>>
    /\ UNCHANGED <<pvars, errvars, envars, tabvars, msgvars>>

\* The state when one of the classifier functions is about to be called.
FnInit ==
    /\ channel = <<>>
    /\ changed = FALSE
    /\ pc = "idle"
    /\ start_timestamp = 0
    /\ end_timestamp = 0
    /\ per_page = 1
    /\ page = 0
    /\ all_posts = <<>>
    /\ requests = <<>>
    /\ pages = <<>>
    /\ result = NoResult
    /\ dates = None
    /\ err_log = <<>>
    /\ MsgIdle
    /\ posts = <<>>
    /\ heap = <<>>
    /\ heap0 = <<>>
    /\ enriched_posts = <<>>
    /\ epc = "returned"
    /\ thread_log = <<>>
    /\ req_log = <<>>
    /\ thread_call = None
    /\ \E n \in 0..MaxArgPosts : arg_posts \in ArgPosts(n)
    /\ arg_posts0 = arg_posts
    /\ ret = NoCall
    /\ TabIdle

FnNext ==
    \/ CallAnalyzeChannelEmojis
    \/ CallPostsWithoutReactions
    \/ \E emoji_name \in EmojiArgs : CallPostsByEmoji(emoji_name)
    \/ CallFilterRootPostsOnly

FnSpec == FnInit /\ [][FnNext]_vars

(***************************************************************************)
(* Properties of the emoji classifier functions                            *)
(***************************************************************************)
\* the non-empty emoji names among the reactions of a post list
FoundNames(list) ==
    {r.emoji_name : r \in {q \in UNION {Range(ReactionsOf(list[i])) : i \in 1..Len(list)} :
                              Has(q, "emoji_name") /\ q.emoji_name # ""}}

Ascending(names) ==
    \A i \in 1..Len(names), j \in 1..Len(names) : i < j => Rank(names[i]) < Rank(names[j])

\* C11: for every post list, the empty list and posts without metadata
\* included, analyze_channel_emojis returns a list in ascending order without
\* duplicates whose elements are exactly the six default emoji names and
\* every non-empty emoji_name found in the posts' reactions.
C11_SortedDefaultsAndFound ==
    ret.fn = "analyze_channel_emojis" =>
        /\ Ascending(ret.value)
        /\ Range(ret.value)
             = {"ballot_box_with_check", "leaves", "ice_cube", "hammer_and_wrench",
                "loading", "eyes"} \cup FoundNames(arg_posts0)

C11_Witness ==
    /\ ret.fn = "analyze_channel_emojis"
    /\ \E i \in 1..Len(arg_posts0) : ~Has(arg_posts0[i], "metadata")
    /\ \E i \in 1..Len(arg_posts0) : ReactionsOf(arg_posts0[i]) = <<Rocket, PlusOne>>
    /\ ret.value[1] = "+1"
    /\ ret.value[Len(ret.value)] = "rocket"
    /\ Len(ret.value) = 8

\* post has a reaction with this emoji_name
HasEmoji(post, emoji_name) ==
    \E r \in Range(ReactionsOf(post)) : Has(r, "emoji_name") /\ r.emoji_name = emoji_name

\* the keys and values of a dict other than 'emoji_count'
WithoutCount(post) == [k \in DOMAIN post \ {"emoji_count"} |-> post[k]]

\* C15: get_posts_by_emoji returns, in input order, exactly the posts with at
\* least one reaction of the given emoji_name, each with emoji_count equal to
\* the number of its reactions of that name (not of all its reactions), and
\* the input posts gain no emoji_count key.
C15_ByEmoji ==
    ret.fn = "get_posts_by_emoji" =>
        LET matching == SelectSeq(arg_posts0, LAMBDA post : HasEmoji(post, ret.emoji_name))
        IN /\ Len(ret.value) = Len(matching)
           /\ \A i \in 1..Len(ret.value) :
                /\ WithoutCount(ret.value[i]) = matching[i]
                /\ Has(ret.value[i], "emoji_count")
                /\ ret.value[i].emoji_count
                     = Cardinality({k \in 1..Len(ReactionsOf(matching[i])) :
                           /\ Has(ReactionsOf(matching[i])[k], "emoji_name")
                           /\ ReactionsOf(matching[i])[k].emoji_name = ret.emoji_name})
           /\ \A i \in 1..Len(arg_posts) : ~Has(arg_posts[i], "emoji_count")
           /\ arg_posts = arg_posts0

C15_Witness ==
    /\ ret.fn = "get_posts_by_emoji"
    /\ ret.emoji_name = "eyes"
    /\ Len(arg_posts0) = 2
    /\ ReactionsOf(arg_posts0[1]) = <<Rocket, PlusOne>>
    /\ ReactionsOf(arg_posts0[2]) = <<Leaves, Eyes>>
    /\ Len(ret.value) = 1
    /\ ret.value[1].emoji_count = 1

NoReactions(post) ==
    \/ ~Has(post, "metadata")
    \/ ~Has(post.metadata, "reactions")
    \/ post.metadata.reactions = <<>>

\* C16: get_posts_without_reactions returns, in input order, exactly the
\* posts whose reaction list is empty or absent, and none of them is returned
\* by get_posts_by_emoji for any emoji name.
C16_WithoutReactions ==
    ret.fn = "get_posts_without_reactions" =>
        /\ ret.value = SelectSeq(arg_posts0, NoReactions)
        /\ \A emoji_name \in Range(EmojiOrder) :
             \A i \in 1..Len(ret.value) :
                \A j \in 1..Len(get_posts_by_emoji(arg_posts0, emoji_name)) :
                    get_posts_by_emoji(arg_posts0, emoji_name)[j].id # ret.value[i].id

C16_Witness ==
    /\ ret.fn = "get_posts_without_reactions"
    /\ Len(arg_posts0) = 2
    /\ Has(arg_posts0[1], "metadata")
    /\ ReactionsOf(arg_posts0[1]) = <<Unnamed, EmptyName>>
    /\ Has(arg_posts0[2], "metadata")
    /\ Has(arg_posts0[2].metadata, "reactions")
    /\ ret.value = <<arg_posts0[2]>>

IsReply(post) == Has(post, "root_id") /\ post.root_id # ""

\* C17: filter_root_posts_only returns exactly the posts with an empty or
\* absent root_id, in input order; these and the posts with a non-empty
\* root_id partition the input: every post is in exactly one of the two.
C17_RootsPartition ==
    ret.fn = "filter_root_posts_only" =>
        LET roots == ret.value
            replies == SelectSeq(arg_posts0, IsReply)
        IN /\ roots = SelectSeq(arg_posts0,
                                LAMBDA post : ~Has(post, "root_id") \/ post.root_id = "")
           /\ \A i \in 1..Len(arg_posts0) :
                (arg_posts0[i] \in Range(roots)) # (arg_posts0[i] \in Range(replies))
           /\ Len(roots) + Len(replies) = Len(arg_posts0)

C17_Witness ==
    /\ ret.fn = "filter_root_posts_only"
    /\ Len(arg_posts0) = 2
    /\ IsReply(arg_posts0[1])
    /\ Has(arg_posts0[2], "root_id")
    /\ ret.value = <<arg_posts0[2]>>

(***************************************************************************)
(* Category statistics of the channel tab: _display_statistics and         *)
(* _display_category_details (tabs/channel_tab.py), the summary table of   *)
(* main (app.py)                                                           *)
(***************************************************************************)
\* the keys of the categories dict, in insertion order
CategoryNames == <<"Done", "In Progress", "Control">>

\* Lists under metadata['reactions'] of the posts a session holds.
SessionReactionLists ==
    {<<>>, <<Eyes>>, <<Eyes, Eyes2>>, <<Leaves, Eyes>>, <<Leaves, Rocket>>}

SessionPostsWithId(id) ==
    {[id |-> id, metadata |-> [reactions |-> rl]] : rl \in SessionReactionLists}

\* Post lists a session holds: get_channel_posts can hand back a post a
\* second time, so the last entry may carry the id of entry 1.
SessionPosts(n) ==
    {ps \in [1..n -> UNION {SessionPostsWithId(i) : i \in 1..n}] :
        /\ \A i \in 1..(n - 1) : ps[i].id = i
        /\ ps[n].id \in {1, n}}

\* What the multiselect of a category returns: emoji names, none twice.
Selections ==
    {<<>>, <<"eyes">>, <<"leaves">>, <<"leaves", "rocket">>, <<"eyes", "leaves">>}

\* sum of post.get('emoji_count', 0) over posts_with_emoji
RECURSIVE SumEmojiCount(_)
SumEmojiCount(posts_with_emoji) ==
    IF posts_with_emoji = <<>> THEN 0
    ELSE (IF Has(Head(posts_with_emoji), "emoji_count")
          THEN Head(posts_with_emoji).emoji_count ELSE 0)
             + SumEmojiCount(Tail(posts_with_emoji))

NoPosts == [category_posts |-> {}, total_reactions_count |-> 0]

\* CategoryLoop counting a post once for every emoji of the category it carries.
RECURSIVE CategoryLoop_PerEmoji(_, _, _, _)
CategoryLoop_PerEmoji(channel_posts, emojis, i, acc) ==
    IF i > Len(emojis) THEN acc
    ELSE LET posts_with_emoji == get_posts_by_emoji(channel_posts, emojis[i])
         IN CategoryLoop_PerEmoji(channel_posts, emojis, i + 1,
                [category_posts |->
                     acc.category_posts
                         \cup {<<posts_with_emoji[k].id, emojis[i]>> :
                                  k \in 1..Len(posts_with_emoji)},
                 total_reactions_count |->
                     acc.total_reactions_count + SumEmojiCount(posts_with_emoji)])

\* `for emoji in emojis` of one category: the set category_posts of post ids
\* and, in app.py, total_reactions_count
RECURSIVE CategoryLoop(_, _, _, _)
CategoryLoop(channel_posts, emojis, i, acc) ==
    IF i > Len(emojis) THEN acc
    ELSE LET posts_with_emoji == get_posts_by_emoji(channel_posts, emojis[i])
         IN CategoryLoop(channel_posts, emojis, i + 1,
                [category_posts |->
                     acc.category_posts
                         \cup {posts_with_emoji[k].id : k \in 1..Len(posts_with_emoji)},
                 total_reactions_count |->
                     acc.total_reactions_count + SumEmojiCount(posts_with_emoji)])

\* CategoryPostSets leaving out of a category the posts of the categories before it.
RECURSIVE CategoryPostSets_Exclusive(_, _, _, _)
CategoryPostSets_Exclusive(channel_posts, categories, i, sets) ==
    IF i > Len(CategoryNames) THEN sets
    ELSE LET category_name == CategoryNames[i]
             category_posts ==
                 CategoryLoop(channel_posts, categories[category_name], 1, NoPosts).category_posts
                     \ UNION {sets[CategoryNames[j]] : j \in 1..(i - 1)}
         IN CategoryPostSets_Exclusive(channel_posts, categories, i + 1,
                [sets EXCEPT ![category_name] = category_posts])

\* `for category_name, emojis in categories.items()` of _display_statistics:
\* the set category_posts of each category
RECURSIVE CategoryPostSets(_, _, _, _)
CategoryPostSets(channel_posts, categories, i, sets) ==
    IF i > Len(CategoryNames) THEN sets
    ELSE LET category_name == CategoryNames[i]
             emojis == categories[category_name]
             category_posts == CategoryLoop(channel_posts, emojis, 1, NoPosts).category_posts
         IN CategoryPostSets(channel_posts, categories, i + 1,
                [sets EXCEPT ![category_name] = category_posts])

\* the rows of category_data in main: only categories with emojis get a row
RECURSIVE CategoryData(_, _, _, _)
CategoryData(channel_posts, categories, i, category_data) ==
    IF i > Len(CategoryNames) THEN category_data
    ELSE LET category_name == CategoryNames[i]
             emojis == categories[category_name]
             counted == CategoryLoop(channel_posts, emojis, 1, NoPosts)
         IN CategoryData(channel_posts, categories, i + 1,
                IF emojis # <<>>
                THEN Append(category_data,
                            [category |-> category_name,
                             emojis |-> emojis,
                             posts |-> Cardinality(counted.category_posts),
                             total_reactions |-> counted.total_reactions_count])
                ELSE category_data)

\* category_posts_dict: a post enters under its id unless the id is there already
RECURSIVE AddToDict(_, _, _)
AddToDict(category_posts_list, posts_with_emoji, k) ==
    IF k > Len(posts_with_emoji) THEN category_posts_list
    ELSE LET post == posts_with_emoji[k]
         IN AddToDict(IF \E m \in 1..Len(category_posts_list) :
                            category_posts_list[m].id = post.id
                      THEN category_posts_list
                      ELSE Append(category_posts_list, post),
                      posts_with_emoji, k + 1)

\* `for emoji in emojis` of _display_category_details
RECURSIVE DetailsLoop(_, _, _, _)
DetailsLoop(channel_posts, emojis, i, category_posts_list) ==
    IF i > Len(emojis) THEN category_posts_list
    ELSE DetailsLoop(channel_posts, emojis, i + 1,
             AddToDict(category_posts_list, get_posts_by_emoji(channel_posts, emojis[i]), 1))

\* _display_category_details: per category with emojis, the posts it lists
CategoryDetails(channel_posts, categories) ==
    [category_name \in {c \in Range(CategoryNames) : categories[c] # <<>>} |->
        DetailsLoop(channel_posts, categories[category_name], 1, <<>>)]

Categories(done_emojis, in_progress_emojis, control_emojis) ==
    [category_name \in Range(CategoryNames) |->
        IF category_name = "Done" THEN done_emojis
        ELSE IF category_name = "In Progress" THEN in_progress_emojis
        ELSE control_emojis]

\* The statistics button is on the page and the emojis are among its options.
CanShowStatistics(done_emojis, in_progress_emojis, control_emojis) ==
    /\ stats = NoStats
    /\ Has(session, "channel_posts")
    /\ session.channel_posts # <<>>
    /\ Range(done_emojis) \cup Range(in_progress_emojis) \cup Range(control_emojis)
          \subseteq Range(session.found_emojis)

\* what _display_statistics puts on the page for the posts of the session
display_statistics(channel_posts, categories) ==
    LET sets == CategoryPostSets(channel_posts, categories, 1,
                                 [c \in Range(CategoryNames) |-> {}])
    IN [shown |-> TRUE,
        view |-> "channel_tab",
        categories |-> categories,
        total_posts |-> Len(channel_posts),
        category_posts |-> sets,
        category_counts |-> [c \in Range(CategoryNames) |-> Cardinality(sets[c])],
        details |-> CategoryDetails(channel_posts, categories),
        posts_without_reactions |-> get_posts_without_reactions(channel_posts)]

\* The statistics button of tabs/channel_tab.py is pressed.
DisplayStatistics(done_emojis, in_progress_emojis, control_emojis) ==
    /\ CanShowStatistics(done_emojis, in_progress_emojis, control_emojis)
    /\ IF done_emojis = <<>> /\ in_progress_emojis = <<>> /\ control_emojis = <<>> THEN
           /\ stats' = [shown |-> FALSE, view |-> "channel_tab", warning |-> TRUE]
           /\ UNCHANGED session
       ELSE
           LET categories == Categories(done_emojis, in_progress_emojis, control_emojis)
           IN /\ session' = ("categories" :> categories) @@ session
              /\ stats' = display_statistics(session.channel_posts, categories)
    /\ UNCHANGED <<ui, net_log, last_load, render>>
    /\ UNCHANGED <<pvars, errvars, envars, fnvars, msgvars>>

\* The statistics button of app.py is pressed.
MainStatistics(done_emojis, in_progress_emojis, control_emojis) ==
    /\ CanShowStatistics(done_emojis, in_progress_emojis, control_emojis)
    /\ IF done_emojis = <<>> /\ in_progress_emojis = <<>> /\ control_emojis = <<>> THEN
           /\ stats' = [shown |-> FALSE, view |-> "app", warning |-> TRUE]
           /\ UNCHANGED session
       ELSE
           LET categories == Categories(done_emojis, in_progress_emojis, control_emojis)
           IN /\ session' = ("categories" :> categories) @@ session
              /\ stats' = [shown |-> TRUE,
                           view |-> "app",
                           categories |-> categories,
                           total_posts |-> Len(session.channel_posts),
                           category_data |->
                               CategoryData(session.channel_posts, categories, 1, <<>>)]
    /\ UNCHANGED <<ui, net_log, last_load, render>>
    /\ UNCHANGED <<pvars, errvars, envars, fnvars, msgvars>>

\* A session after a load that stored posts: the statistics button is offered.
StatsInit ==
    /\ channel = <<>>
    /\ changed = FALSE
    /\ pc = "idle"
    /\ start_timestamp = 0
    /\ end_timestamp = 0
    /\ per_page = 1
    /\ page = 0
    /\ all_posts = <<>>
    /\ requests = <<>>
    /\ pages = <<>>
    /\ result = NoResult
    /\ dates = None
    /\ err_log = <<>>
    /\ MsgIdle
    /\ posts = <<>>
    /\ heap = <<>>
    /\ heap0 = <<>>
    /\ enriched_posts = <<>>
    /\ epc = "returned"
    /\ thread_log = <<>>
    /\ req_log = <<>>
    /\ thread_call = None
    /\ FnIdle
    /\ \E n \in 1..MaxSession : \E ps \in SessionPosts(n) :
         session = [channel_posts |-> ps,
                    found_emojis |-> analyze_channel_emojis(ps),
                    channel_id |-> "c1",
                    include_thread_reactions |-> FALSE,
                    team_name |-> "team"]
    /\ ui = NoMessage
    /\ net_log = <<>>
    /\ last_load = NoLoad
    /\ stats = NoStats
    /\ render = NoRender

StatsNext ==
    \/ \E done_emojis \in Selections, in_progress_emojis \in Selections,
          control_emojis \in Selections :
           DisplayStatistics(done_emojis, in_progress_emojis, control_emojis)
    \/ \E done_emojis \in Selections, in_progress_emojis \in Selections,
          control_emojis \in Selections :
           MainStatistics(done_emojis, in_progress_emojis, control_emojis)

StatsSpec == StatsInit /\ [][StatsNext]_vars

(***************************************************************************)
(* Properties of the category statistics                                   *)
(***************************************************************************)
PairwiseDisjoint(categories) ==
    \A a \in Range(CategoryNames), b \in Range(CategoryNames) :
        a # b => Range(categories[a]) \cap Range(categories[b]) = {}

\* post has a reaction whose emoji_name is in the set of category c
InCategory(post, categories, c) ==
    \E emoji_name \in Range(categories[c]) : HasEmoji(post, emoji_name)

\* the unique-post count displayed for category c; app.py shows no row, hence
\* no post, for a category without emojis
ShownCount(c) ==
    IF stats.view = "channel_tab" THEN stats.category_counts[c]
    ELSE IF \E k \in 1..Len(stats.category_data) : stats.category_data[k].category = c
    THEN stats.category_data[CHOOSE k \in 1..Len(stats.category_data) :
                                 stats.category_data[k].category = c].posts
    ELSE 0

SumOfCounts == ShownCount("Done") + ShownCount("In Progress") + ShownCount("Control")

\* every post has reactions of at most one category
OneCategoryPerPost ==
    \A i \in 1..Len(session.channel_posts) :
        Cardinality({c \in Range(CategoryNames) :
                        InCategory(session.channel_posts[i], stats.categories, c)}) <= 1

\* C12, as claimed: for pairwise disjoint category emoji sets, the sum over
\* Done, In Progress and Control of the unique-post counts never exceeds the
\* number of posts.
C12_SumWithinPosts ==
    (stats.shown /\ PairwiseDisjoint(stats.categories))
        => SumOfCounts <= Len(session.channel_posts)

\* C12, amended: for pairwise disjoint category emoji sets and posts each of
\* which has reactions of at most one category, the sum over Done, In Progress
\* and Control of the unique-post counts never exceeds the number of posts.
C12_SumWithinPostsOneCategory ==
    (stats.shown /\ PairwiseDisjoint(stats.categories) /\ OneCategoryPerPost)
        => SumOfCounts <= Len(session.channel_posts)

C12_Witness ==
    /\ stats.shown
    /\ PairwiseDisjoint(stats.categories)
    /\ OneCategoryPerPost
    /\ Len(session.channel_posts) = 2
    /\ \E i \in 1..2 : ReactionsOf(session.channel_posts[i]) = <<Leaves, Rocket>>
    /\ stats.categories["Done"] = <<"leaves", "rocket">>
    /\ ShownCount("Done") = 1
    /\ ShownCount("Control") = 1

\* the ids of the posts with a reaction of category c
IdsInCategory(c) ==
    {session.channel_posts[i].id :
        i \in {j \in 1..Len(session.channel_posts) :
                  InCategory(session.channel_posts[j], stats.categories, c)}}

\* the reactions, over all posts, whose emoji_name is in the set of category c
ReactionsInCategory(c) ==
    UNION {{<<i, k>> : k \in {m \in 1..Len(ReactionsOf(session.channel_posts[i])) :
                                 /\ Has(ReactionsOf(session.channel_posts[i])[m], "emoji_name")
                                 /\ ReactionsOf(session.channel_posts[i])[m].emoji_name
                                       \in Range(stats.categories[c])}} :
              i \in 1..Len(session.channel_posts)}

\* C13: for each category the unique-post count is the number of distinct
\* post ids with at least one reaction whose emoji_name is in the category's
\* set, a post with several emojis of the category counted once, and the
\* total reaction count is the number of reactions on those posts whose
\* emoji_name is in the set.
C13_CountsPerCategory ==
    stats.shown =>
        /\ \A c \in Range(CategoryNames) : ShownCount(c) = Cardinality(IdsInCategory(c))
        /\ stats.view = "app" =>
             /\ \A c \in Range(CategoryNames) :
                  (stats.categories[c] # <<>>)
                     <=> \E k \in 1..Len(stats.category_data) :
                            stats.category_data[k].category = c
             /\ \A k \in 1..Len(stats.category_data) :
                  stats.category_data[k].total_reactions
                     = Cardinality(ReactionsInCategory(stats.category_data[k].category))

C13_Witness ==
    /\ stats.shown
    /\ stats.view = "app"
    /\ Len(session.channel_posts) = 2
    /\ session.channel_posts[2].id = 1
    /\ ReactionsOf(session.channel_posts[1]) = <<Leaves, Rocket>>
    /\ ReactionsOf(session.channel_posts[2]) = <<Leaves, Eyes>>
    /\ stats.category_data
         = <<[category |-> "Done", emojis |-> <<"leaves", "rocket">>,
              posts |-> 1, total_reactions |-> 3]>>

\* C14: given overlapping category sets, a post reacted with an emoji that
\* belongs to two categories is in the post set of both, is counted in the
\* unique-post count of both and is listed in the details of both.
C14_CountedInBoth ==
    (stats.shown /\ stats.view = "channel_tab") =>
        \A a \in Range(CategoryNames), b \in Range(CategoryNames) :
            \A emoji_name \in Range(stats.categories[a]) \cap Range(stats.categories[b]) :
                \A i \in 1..Len(session.channel_posts) :
                    (a # b /\ HasEmoji(session.channel_posts[i], emoji_name)) =>
                        \A c \in {a, b} :
                            /\ session.channel_posts[i].id \in stats.category_posts[c]
                            /\ stats.category_counts[c] = Cardinality(stats.category_posts[c])
                            /\ \E m \in 1..Len(stats.details[c]) :
                                  stats.details[c][m].id = session.channel_posts[i].id

C14_Witness ==
    /\ stats.shown
    /\ stats.view = "channel_tab"
    /\ stats.categories["Done"] = <<"eyes", "leaves">>
    /\ stats.categories["Control"] = <<"eyes">>
    /\ Len(session.channel_posts) = 2
    /\ ReactionsOf(session.channel_posts[1]) = <<Eyes>>
    /\ ReactionsOf(session.channel_posts[2]) = <<Leaves, Rocket>>
    /\ stats.category_counts["Done"] = 2
    /\ stats.category_counts["Control"] = 1

(***************************************************************************)
(* The load button of the channel tab: render_channel_tab and              *)
(* _load_and_analyze_channel (tabs/channel_tab.py)                         *)
(***************************************************************************)
\* What the user has typed and picked when pressing the button.
Form(server_url, personal_token, channel_input, start_date, end_date, include_thread_reactions) ==
    [server_url |-> server_url, personal_token |-> personal_token,
     channel_input |-> channel_input, start_date |-> start_date, end_date |-> end_date,
     include_thread_reactions |-> include_thread_reactions]

\* Forms the button is pressed with: complete ones, one for each missing or
\* wrong field, one with everything missing.
Forms ==
    {Form("https://mm", "token", "c1", 1, 2, FALSE),
     Form("https://mm", "token", "https://mm/core/channels/c1", 2, 2, TRUE),
     Form("", "token", "c1", 1, 2, FALSE),
     Form("https://mm", "", "c1", 1, 2, TRUE),
     Form("https://mm", "token", "", 1, 1, FALSE),
     Form("https://mm", "token", "c1", 2, 1, TRUE),
     Form("", "", "", 2, 1, FALSE)}

\* re.search(r'/channels/([a-z0-9]+)', url), else url.strip()
parse_channel_id_from_url(url) ==
    IF url = "https://mm/core/channels/c1" THEN "c1" ELSE url

Message(level, text) == [level |-> level, text |-> text]

\* Validate that lets a start date after the end date through.
Validate_NoDateCheck(server_url, personal_token, channel_input, start_date, end_date) ==
    IF server_url = "" THEN Message("error", "server URL missing")
    ELSE IF personal_token = "" THEN Message("error", "access token missing")
    ELSE IF channel_input = "" THEN Message("error", "channel ID or URL missing")
    ELSE NoMessage

\* the if/elif chain of the button: the st.error it ends in, if any
Validate(server_url, personal_token, channel_input, start_date, end_date) ==
    IF server_url = "" THEN Message("error", "server URL missing")
    ELSE IF personal_token = "" THEN Message("error", "access token missing")
    ELSE IF channel_input = "" THEN Message("error", "channel ID or URL missing")
    ELSE IF start_date > end_date THEN Message("error", "start date after end date")
    ELSE NoMessage

\* Post dicts as the server sends them.
RootPost(id, reactions) ==
    [id |-> id, root_id |-> "", type |-> "", metadata |-> [reactions |-> reactions]]
PlainRoot(id) == [id |-> id, root_id |-> "", type |-> "", metadata |-> EmptyDict]
ReplyPost(id, root_id) ==
    [id |-> id, root_id |-> root_id, type |-> "", metadata |-> [reactions |-> <<Rocket>>]]
SystemPost(id) ==
    [id |-> id, root_id |-> "", type |-> "system_join_channel", metadata |-> EmptyDict]

\* What get_channel_posts hands back for the period asked for.
FetchedLists ==
    {<<>>,
     <<RootPost(1, <<Eyes>>)>>,
     <<SystemPost(4)>>,
     <<PlainRoot(2), RootPost(1, <<Eyes>>)>>,
     <<ReplyPost(3, "p1"), RootPost(1, <<Eyes>>)>>,
     <<SystemPost(4), ReplyPost(3, "p1")>>,
     <<SystemPost(4), ReplyPost(3, "p1"), RootPost(2, <<Rocket>>)>>}

\* Answers to GET /channels/{id} and GET /teams/{id}; a failed request gives {}.
ChannelInfos == {EmptyDict, [team_id |-> "t1"]}
TeamInfos == {EmptyDict, [name |-> "core"]}

\* What get_thread_reactions gives for one post: an exception or a list.
ThreadOutcomes ==
    {Raise(ThreadPostsError(TimeoutFailure)), Value(<<>>), Value(<<Leaves>>)}

\* filter_system_messages dropping a post whose type is the empty string.
filter_system_messages_AbsentOnly(posts_arg) ==
    SelectSeq(posts_arg, LAMBDA post : ~Has(post, "type"))

\* filter_system_messages letting every post through.
filter_system_messages_Off(posts_arg) == posts_arg

\* [post for post in posts if not post.get('type')]
filter_system_messages(posts_arg) ==
    SelectSeq(posts_arg, LAMBDA post : ~(Has(post, "type") /\ post.type # ""))

\* enrich_posts_with_thread_reactions, thread_reactions[i] being what
\* get_thread_reactions gives for post i
enrich_posts_with_thread_reactions(posts_arg, thread_reactions) ==
    [i \in 1..Len(posts_arg) |->
        LET post == posts_arg[i]
            enriched_post == post
        IN IF ~Has(post, "id") THEN post
           ELSE IF thread_reactions[i].raised \/ thread_reactions[i].value = <<>>
           THEN enriched_post
           ELSE IF ~Has(enriched_post, "metadata")
           THEN ("metadata" :> [reactions |-> thread_reactions[i].value]) @@ enriched_post
           ELSE [enriched_post EXCEPT !.metadata =
                    ("reactions" :> thread_reactions[i].value) @@ enriched_post.metadata]]

\* A request as net_log records it.
Request(name) == [request |-> name]

\* the requests enrich_posts_with_thread_reactions issues: one thread fetch
\* for every post with an id, recorded with the post it is made for
ThreadRequests(posts_arg) ==
    LET with_id == SelectSeq(posts_arg, LAMBDA post : Has(post, "id"))
    IN [i \in 1..Len(with_id) |-> [request |-> "thread", post |-> with_id[i]]]

\* The tail of _load_and_analyze_channel for a non-empty fetch: the emoji
\* analysis of the loaded posts and the assignments to st.session_state.
StoreLoaded(form, team_name, issued, loaded) ==
    /\ ui' = Message("success", "emojis found")
    /\ net_log' = issued
    /\ last_load' = [form |-> form, outcome |-> "completed", posts |-> loaded]
    /\ session' =
           [channel_posts |-> loaded,
            found_emojis |-> analyze_channel_emojis(loaded),
            channel_id |-> parse_channel_id_from_url(form.channel_input),
            include_thread_reactions |-> form.include_thread_reactions,
            team_name |-> team_name,
            start_date |-> form.start_date,
            end_date |-> form.end_date]
         @@ session

\* The load button is pressed: validation, then _load_and_analyze_channel.
\* The server answers the channel and team requests with channel_info and
\* team_info, get_channel_posts ends as fetch says, the thread fetches as
\* thread_reactions says.
LoadChannel(server_url, personal_token, channel_input, start_date, end_date, include_thread_reactions) ==
    LET form == Form(server_url, personal_token, channel_input, start_date, end_date,
                     include_thread_reactions)
        invalid == Validate(server_url, personal_token, channel_input, start_date, end_date)
    IN
    /\ stats = NoStats
    /\ IF invalid # NoMessage THEN
           /\ ui' = invalid
           /\ net_log' = <<>>
           /\ last_load' = [form |-> form, outcome |-> "invalid"]
           /\ UNCHANGED session
       ELSE
           \E channel_info \in ChannelInfos, team_info \in TeamInfos,
              fetch \in {Raised(ChannelPostsError(TimeoutFailure))}
                            \cup {Returned(list) : list \in FetchedLists} :
             LET team_id == IF Has(channel_info, "team_id") THEN channel_info.team_id ELSE ""
                 team_name == IF team_id # "" /\ Has(team_info, "name")
                              THEN team_info.name ELSE "team"
                 issued == (IF team_id # ""
                            THEN <<Request("channel"), Request("team")>>
                            ELSE <<Request("channel")>>)
                               \o <<Request("posts")>>
             IN
             /\ team_id = "" => team_info = EmptyDict
             /\ IF fetch.kind = "raise" THEN
                    /\ ui' = Message("error", fetch.error.msg)
                    /\ net_log' = issued
                    /\ last_load' = [form |-> form, outcome |-> "failed"]
                    /\ UNCHANGED session
                ELSE IF fetch.posts = <<>> THEN
                    /\ ui' = Message("warning", "no posts in the period")
                    /\ net_log' = issued
                    /\ last_load' = [form |-> form, outcome |-> "completed",
                                     posts |-> fetch.posts]
                    /\ UNCHANGED session
                ELSE
                    LET filtered == filter_system_messages(fetch.posts)
                        root_posts == filter_root_posts_only(filtered)
                    IN IF include_thread_reactions THEN
                           \E thread_reactions \in [1..Len(root_posts) -> ThreadOutcomes] :
                               StoreLoaded(form, team_name,
                                           issued \o ThreadRequests(root_posts),
                                           enrich_posts_with_thread_reactions(
                                               root_posts, thread_reactions))
                       ELSE StoreLoaded(form, team_name, issued, root_posts)
    /\ UNCHANGED <<stats, render>>
    /\ UNCHANGED <<pvars, errvars, envars, fnvars, msgvars>>

\* A fresh session with the channel tab open.
TabInit ==
    /\ channel = <<>>
    /\ changed = FALSE
    /\ pc = "idle"
    /\ start_timestamp = 0
    /\ end_timestamp = 0
    /\ per_page = 1
    /\ page = 0
    /\ all_posts = <<>>
    /\ requests = <<>>
    /\ pages = <<>>
    /\ result = NoResult
    /\ dates = None
    /\ err_log = <<>>
    /\ MsgIdle
    /\ posts = <<>>
    /\ heap = <<>>
    /\ heap0 = <<>>
    /\ enriched_posts = <<>>
    /\ epc = "returned"
    /\ thread_log = <<>>
    /\ req_log = <<>>
    /\ thread_call = None
    /\ FnIdle
    /\ TabIdle

TabNext ==
    \E form \in Forms :
        LoadChannel(form.server_url, form.personal_token, form.channel_input,
                    form.start_date, form.end_date, form.include_thread_reactions)

TabSpec == TabInit /\ [][TabNext]_vars

(***************************************************************************)
(* Properties of the load button                                           *)
(***************************************************************************)
InvalidForm(form) ==
    \/ form.server_url = ""
    \/ form.personal_token = ""
    \/ form.channel_input = ""
    \/ form.start_date > form.end_date

\* C18: a press of the load button with an empty server URL, an empty token,
\* an empty channel input or a start date after the end date reports an
\* error, issues no network request and leaves the session state as it was.
C18_InvalidFormStops ==
    [][(last_load'.outcome # "none" /\ InvalidForm(last_load'.form))
          => (ui'.level = "error" /\ net_log' = <<>> /\ session' = session)]_vars

C18_Witness ==
    /\ last_load.outcome = "invalid"
    /\ last_load.form.server_url # ""
    /\ last_load.form.personal_token # ""
    /\ last_load.form.channel_input # ""
    /\ last_load.form.start_date > last_load.form.end_date
    /\ ui.level = "error"
    /\ net_log = <<>>
    /\ Has(session, "channel_posts")
    /\ session.channel_posts # <<>>

\* the posts the session holds
StoredPosts == IF Has(session, "channel_posts") THEN session.channel_posts ELSE <<>>

\* C19: once a press of the load button has completed without a failure, the
\* posts the session holds are the posts of that load, never those of an
\* earlier one.
C19_SessionHoldsLastLoad ==
    last_load.outcome = "completed" => StoredPosts = last_load.posts

IsSystem(post) == Has(post, "type") /\ post.type # ""

\* C24: after a channel load with thread reactions on or off, the post list
\* the session holds contains no system message and no reply, the enricher
\* is given only posts that are neither, and the emoji list the session
\* holds is analyze_channel_emojis of the post list it holds.
C24_PipelineOrder ==
    /\ \A i \in 1..Len(StoredPosts) :
          ~IsSystem(StoredPosts[i]) /\ ~IsReply(StoredPosts[i])
    /\ \A i \in 1..Len(net_log) :
          net_log[i].request = "thread"
              => (~IsSystem(net_log[i].post) /\ ~IsReply(net_log[i].post))
    /\ Has(session, "channel_posts")
          => session.found_emojis = analyze_channel_emojis(session.channel_posts)

C24_Witness ==
    /\ last_load.outcome = "completed"
    /\ last_load.form.include_thread_reactions
    /\ Len(net_log) = 4
    /\ net_log[4].request = "thread"
    /\ ReactionsOf(net_log[4].post) = <<Rocket>>
    /\ Len(StoredPosts) = 1
    /\ ReactionsOf(StoredPosts[1]) = <<Leaves>>
    /\ "rocket" \notin Range(session.found_emojis)

(***************************************************************************)
(* The two post filters: filter_system_messages, filter_root_posts_only    *)
(***************************************************************************)
\* Post dicts for the filters: 'type' and 'root_id' may each be missing,
\* empty or set.
TypedPostsWithId(id) ==
    LET bare == {[id |-> id]}
        typed == bare \cup {("type" :> t) @@ p : t \in {"", "system_join_channel"}, p \in bare}
    IN typed \cup {("root_id" :> r) @@ p : r \in {"", "p0"}, p \in typed}

\* Argument lists: post i is a dict of its own, with id i.
TypedPosts(n) ==
    IF n = 0 THEN {<<>>}
    ELSE {ps \in [1..n -> UNION {TypedPostsWithId(i) : i \in 1..n}] :
            \A i \in 1..n : ps[i].id = i}

FilterNames == {"filter_system_messages", "filter_root_posts_only"}

\* the filter of this name applied to a list
ApplyFilter(name, posts_arg) ==
    IF name = "filter_system_messages" THEN filter_system_messages(posts_arg)
    ELSE filter_root_posts_only(posts_arg)

CallFilterSystemMessages ==
    /\ ret = NoCall
    /\ ret' = [fn |-> "filter_system_messages", value |-> filter_system_messages(arg_posts)]
    /\ UNCHANGED <<arg_posts, arg_posts0>>
    /\ UNCHANGED <<pvars, errvars, envars, tabvars, msgvars>>

\* A caller hands the list one filter returned to a filter again.
CallFilterOnResult(name) ==
    /\ ret.fn \in FilterNames
    /\ ret' = [fn |-> "composition", first |-> ret.fn, once |-> ret.value,
               second |-> name, value |-> ApplyFilter(name, ret.value)]
    /\ UNCHANGED <<arg_posts, arg_posts0>>
    /\ UNCHANGED <<pvars, errvars, envars, tabvars, msgvars>>

\* The state when one of the filters is about to be called.
FilterInit ==
    /\ channel = <<>>
    /\ changed = FALSE
    /\ pc = "idle"
    /\ start_timestamp = 0
    /\ end_timestamp = 0
    /\ per_page = 1
    /\ page = 0
    /\ all_posts = <<>>
    /\ requests = <<>>
    /\ pages = <<>>
    /\ result = NoResult
    /\ dates = None
    /\ err_log = <<>>
    /\ MsgIdle
    /\ posts = <<>>
    /\ heap = <<>>
    /\ heap0 = <<>>
    /\ enriched_posts = <<>>
    /\ epc = "returned"
    /\ thread_log = <<>>
    /\ req_log = <<>>
    /\ thread_call = None
    /\ \E n \in 0..MaxArgPosts : arg_posts \in TypedPosts(n)
    /\ arg_posts0 = arg_posts
    /\ ret = NoCall
    /\ TabIdle

FilterNext ==
    \/ CallFilterSystemMessages
    \/ CallFilterRootPostsOnly
    \/ \E name \in FilterNames : CallFilterOnResult(name)

FilterSpec == FilterInit /\ [][FilterNext]_vars

\* C25: filter_system_messages returns exactly the posts with an empty or
\* absent type, in input order; filter_system_messages and
\* filter_root_posts_only applied in either order give the same list, and
\* either filter applied twice gives what it gives applied once.
C25_FiltersCommute ==
    /\ ret.fn = "filter_system_messages" =>
          /\ ret.value = SelectSeq(arg_posts0,
                                   LAMBDA post : ~Has(post, "type") \/ post.type = "")
          /\ arg_posts = arg_posts0
    /\ ret.fn = "composition" =>
          IF ret.first = ret.second THEN ret.value = ret.once
          ELSE ret.value = ApplyFilter(ret.first, ApplyFilter(ret.second, arg_posts0))

C25_Witness ==
    /\ ret.fn = "composition"
    /\ ret.first = "filter_root_posts_only"
    /\ ret.second = "filter_system_messages"
    /\ Len(arg_posts0) = 2
    /\ IsSystem(arg_posts0[1]) /\ ~IsReply(arg_posts0[1])
    /\ Has(arg_posts0[2], "type") /\ Has(arg_posts0[2], "root_id")
    /\ Len(ret.once) = 2
    /\ ret.value = <<arg_posts0[2]>>

(***************************************************************************)
(* The category selection of the channel tab:                              *)
(* _render_categories_and_stats (tabs/channel_tab.py)                      *)
(***************************************************************************)
default_done == <<"leaves", "ice_cube", "ballot_box_with_check">>
default_in_progress == <<"hammer_and_wrench">>
default_control == <<"loading", "eyes">>

\* [e for e in list if e in others]
Among(list, others) == SelectSeq(list, LAMBDA e : e \in Range(others))

\* available_for_done offering every emoji found.
available_for_done_All(found_emojis) == found_emojis

\* the options of the Done widget
available_for_done(found_emojis) ==
    LET in_progress_default == Among(default_in_progress, found_emojis)
        control_default == Among(default_control, found_emojis)
        reserved_for_later == Range(in_progress_default \o control_default)
    IN SelectSeq(found_emojis, LAMBDA e : e \notin reserved_for_later)

\* the options of the In Progress widget
available_for_in_progress(found_emojis, done_emojis) ==
    LET control_default == Among(default_control, found_emojis)
        reserved_for_control == Range(control_default)
    IN SelectSeq(found_emojis,
                 LAMBDA e : e \notin Range(done_emojis) /\ e \notin reserved_for_control)

\* available_for_control leaving out only what Done has selected.
available_for_control_DoneOnly(found_emojis, done_emojis, in_progress_emojis) ==
    SelectSeq(found_emojis, LAMBDA e : e \notin Range(done_emojis))

\* the options of the Control widget
available_for_control(found_emojis, done_emojis, in_progress_emojis) ==
    LET used_emojis == Range(done_emojis) \cup Range(in_progress_emojis)
    IN SelectSeq(found_emojis, LAMBDA e : e \notin used_emojis)

\* What st.multiselect returns: a selection among its options.  Untouched it
\* is the default; the user may have cleared it, added an option to it or
\* removed an emoji from it.
multiselect(options, default) ==
    {default, <<>>}
        \cup {Append(default, e) : e \in Range(options) \ Range(default)}
        \cup {SelectSeq(default, LAMBDA e : e # d) : d \in Range(default)}

\* Post lists of a loaded session: only default emojis found, one more, two more.
RenderedPosts ==
    {<<RootPost(1, <<Eyes>>)>>,
     <<RootPost(1, <<Leaves, Rocket>>), RootPost(2, <<Eyes>>)>>,
     <<PlainRoot(2), RootPost(1, <<Rocket, PlusOne>>)>>}

\* One run of _render_categories_and_stats: the three widgets are drawn one
\* after the other, each with the options left by the selections before it;
\* pressed says whether the statistics button was pressed in this run.
RenderCategoriesAndStats(pressed) ==
    /\ Has(session, "channel_posts")
    /\ session.channel_posts # <<>>
    /\ ~Has(session, "categories")
    /\ LET found_emojis == session.found_emojis
           done_default == Among(default_done, found_emojis)
           in_progress_default == Among(default_in_progress, found_emojis)
           control_default == Among(default_control, found_emojis)
           done_options == available_for_done(found_emojis)
       IN \E done_emojis \in multiselect(done_options, done_default) :
          LET in_progress_options == available_for_in_progress(found_emojis, done_emojis)
              in_progress_shown == Among(in_progress_default, in_progress_options)
          IN \E in_progress_emojis \in multiselect(in_progress_options, in_progress_shown) :
             LET control_options ==
                     available_for_control(found_emojis, done_emojis, in_progress_emojis)
                 control_shown == Among(control_default, control_options)
             IN \E control_emojis \in multiselect(control_options, control_shown) :
                LET categories == Categories(done_emojis, in_progress_emojis, control_emojis)
                    nothing == done_emojis = <<>> /\ in_progress_emojis = <<>>
                                 /\ control_emojis = <<>>
                IN /\ render' = [rendered |-> TRUE,
                                 options |-> Categories(done_options, in_progress_options,
                                                        control_options),
                                 default |-> Categories(done_default, in_progress_shown,
                                                        control_shown),
                                 value |-> categories,
                                 pressed |-> pressed]
                   /\ IF pressed /\ ~nothing THEN
                          /\ session' = ("categories" :> categories) @@ session
                          /\ stats' = display_statistics(session.channel_posts, categories)
                      ELSE IF pressed THEN
                          /\ stats' = [shown |-> FALSE, view |-> "channel_tab",
                                       warning |-> TRUE]
                          /\ UNCHANGED session
                      ELSE
                          /\ stats' = NoStats
                          /\ UNCHANGED session
    /\ UNCHANGED <<ui, net_log, last_load>>
    /\ UNCHANGED <<pvars, errvars, envars, fnvars, msgvars>>

\* A session after a load that stored posts: the category widgets are drawn.
RenderInit ==
    /\ channel = <<>>
    /\ changed = FALSE
    /\ pc = "idle"
    /\ start_timestamp = 0
    /\ end_timestamp = 0
    /\ per_page = 1
    /\ page = 0
    /\ all_posts = <<>>
    /\ requests = <<>>
    /\ pages = <<>>
    /\ result = NoResult
    /\ dates = None
    /\ err_log = <<>>
    /\ MsgIdle
    /\ posts = <<>>
    /\ heap = <<>>
    /\ heap0 = <<>>
    /\ enriched_posts = <<>>
    /\ epc = "returned"
    /\ thread_log = <<>>
    /\ req_log = <<>>
    /\ thread_call = None
    /\ FnIdle
    /\ \E ps \in RenderedPosts :
         session = [channel_posts |-> ps,
                    found_emojis |-> analyze_channel_emojis(ps),
                    channel_id |-> "c1",
                    include_thread_reactions |-> FALSE,
                    team_name |-> "team",
                    start_date |-> 1,
                    end_date |-> 2]
    /\ ui = NoMessage
    /\ net_log = <<>>
    /\ last_load = NoLoad
    /\ stats = NoStats
    /\ render = NoRender

RenderNext == \E pressed \in BOOLEAN : RenderCategoriesAndStats(pressed)

RenderSpec == RenderInit /\ [][RenderNext]_vars

(***************************************************************************)
(* Properties of the category selection                                    *)
(***************************************************************************)
\* C23: the options offered for Done exclude the default emojis of In
\* Progress and Control; the options offered for In Progress exclude every
\* emoji selected for Done and the default emojis of Control; the options
\* offered for Control exclude every emoji selected for Done or In Progress.
C23_CategoryPrecedence ==
    render.rendered =>
        /\ Range(render.options["Done"])
              \cap {"hammer_and_wrench", "loading", "eyes"} = {}
        /\ Range(render.options["In Progress"])
              \cap (Range(render.value["Done"]) \cup {"loading", "eyes"}) = {}
        /\ Range(render.options["Control"])
              \cap (Range(render.value["Done"]) \cup Range(render.value["In Progress"])) = {}

C23_Witness ==
    /\ render.rendered
    /\ "rocket" \in Range(session.found_emojis)
    /\ render.value["Done"] = <<"leaves", "ice_cube", "ballot_box_with_check", "rocket">>
    /\ render.options["In Progress"] = <<"+1", "hammer_and_wrench">>
    /\ render.value["In Progress"] = <<"hammer_and_wrench", "+1">>
    /\ render.options["Control"] = <<"eyes", "loading">>

\* C28: in every run of the category selection, whatever the user has
\* selected and deselected, the three selected emoji sets, and with them the
\* sets handed to the statistics, are pairwise disjoint, and the default
\* selection of each widget is among the options of the widget.
C28_SelectionsDisjoint ==
    render.rendered =>
        /\ PairwiseDisjoint(render.value)
        /\ (render.pressed /\ stats.shown) =>
              /\ stats.categories = render.value
              /\ session.categories = render.value
              /\ PairwiseDisjoint(stats.categories)
        /\ \A c \in Range(CategoryNames) :
              Range(render.default[c]) \subseteq Range(render.options[c])

C28_Witness ==
    /\ render.rendered
    /\ render.pressed
    /\ stats.shown
    /\ stats.categories["Done"] = <<"ice_cube", "ballot_box_with_check">>
    /\ stats.categories["In Progress"] = <<"hammer_and_wrench", "leaves">>
    /\ stats.categories["Control"] = <<"loading", "eyes", "rocket">>
    /\ "leaves" \in Range(render.options["Done"])
    /\ "leaves" \notin Range(render.options["Control"])

(***************************************************************************)
(* Direct messages (src/mattermost_api.py): get_user_id_by_identifier,     *)
(* create_direct_channel, send_message_to_channel, send_direct_message     *)
(* and the loop of broadcast_message.                                      *)
(***************************************************************************)
\* an HTTP answer: a status code and a JSON object
Answer(status_code, json) == [kind |-> "answer", status_code |-> status_code, json |-> json]
WithId(id) == ("id" :> id)

\* a Python str where None is possible too (Optional[str])
Str(s) == [none |-> FALSE, str |-> s]

\* dict.get('id')
get_id(json) == IF Has(json, "id") THEN Str(json.id) ELSE None

\* Python's "not x" for an Optional[str]
Falsy(x) == x.none \/ x.str = ""

\* response.raise_for_status() raises an HTTPError for the 4xx and 5xx codes
RaisesForStatus(resp) == resp.status_code >= 400

\* answers to GET users/email/{identifier} and GET users/username/{identifier}
LookupResponses ==
    {Answer(200, WithId("u7")), Answer(200, WithId("")), Answer(200, EmptyDict),
     Answer(404, EmptyDict), Fail(TimeoutFailure)}

\* answers to POST channels/direct
ChannelResponses ==
    {Answer(201, WithId("dm7")), Answer(201, WithId("")), Answer(201, EmptyDict),
     Answer(403, EmptyDict), Fail(TimeoutFailure)}

\* answers to POST posts
PostResponses == {Answer(201, WithId("p9")), Answer(403, EmptyDict), Fail(TimeoutFailure)}

\* one request of a call, what it carried and what came back
Requested(name, data, answer) == [request |-> name, data |-> data, answer |-> answer]

\* get_user_id_by_identifier: the e-mail lookup, and the user-name lookup
\* unless the e-mail lookup answered with status 200
get_user_id_by_identifier(identifier, email_resp, username_resp) ==
    LET by_email == Requested("users/email", identifier, email_resp)
        by_username == Requested("users/username", identifier, username_resp)
    IN IF email_resp.kind = "answer" /\ email_resp.status_code = 200
       THEN [value |-> get_id(email_resp.json), requests |-> <<by_email>>]
       ELSE IF username_resp.kind = "answer" /\ username_resp.status_code = 200
            THEN [value |-> get_id(username_resp.json), requests |-> <<by_email, by_username>>]
            ELSE [value |-> None, requests |-> <<by_email, by_username>>]

create_direct_channel(user_id2, resp) ==
    LET creation == Requested("channels/direct", user_id2, resp)
    IN IF resp.kind = "answer" /\ ~RaisesForStatus(resp)
       THEN [value |-> get_id(resp.json), requests |-> <<creation>>]
       ELSE [value |-> None, requests |-> <<creation>>]

send_message_to_channel(channel_id, resp) ==
    [value |-> resp.kind = "answer" /\ ~RaisesForStatus(resp),
     requests |-> <<Requested("posts", channel_id, resp)>>]

\* the three error texts of send_direct_message (Russian in the source)
UserNotFound == "user not found"
ChannelNotCreated == "could not create the DM channel"
MessageNotSent == "could not send the message"

SendResult(success, recipient, error) == [success |-> success, recipient |-> recipient, error |-> error]

\* send_direct_message without the check of the channel id
send_direct_message_NoChannelCheck(recipient_identifier, email_resp, username_resp, channel_resp, post_resp) ==
    LET lookup == get_user_id_by_identifier(recipient_identifier, email_resp, username_resp)
    IN IF Falsy(lookup.value)
       THEN [value |-> SendResult(FALSE, recipient_identifier, Str(UserNotFound)),
             requests |-> lookup.requests]
       ELSE LET creation == create_direct_channel(lookup.value.str, channel_resp)
                channel_id == IF creation.value.none THEN "" ELSE creation.value.str
                sending == send_message_to_channel(channel_id, post_resp)
            IN [value |-> SendResult(sending.value, recipient_identifier,
                                     IF sending.value THEN None ELSE Str(MessageNotSent)),
                requests |-> lookup.requests \o creation.requests \o sending.requests]

\* send_direct_message: the result dict and the requests made, in order
send_direct_message(recipient_identifier, email_resp, username_resp, channel_resp, post_resp) ==
    LET lookup == get_user_id_by_identifier(recipient_identifier, email_resp, username_resp)
    IN IF Falsy(lookup.value)
       THEN [value |-> SendResult(FALSE, recipient_identifier, Str(UserNotFound)),
             requests |-> lookup.requests]
       ELSE LET creation == create_direct_channel(lookup.value.str, channel_resp)
            IN IF Falsy(creation.value)
               THEN [value |-> SendResult(FALSE, recipient_identifier, Str(ChannelNotCreated)),
                     requests |-> lookup.requests \o creation.requests]
               ELSE LET sending == send_message_to_channel(creation.value.str, post_resp)
                    IN [value |-> SendResult(sending.value, recipient_identifier,
                                             IF sending.value THEN None ELSE Str(MessageNotSent)),
                        requests |-> lookup.requests \o creation.requests \o sending.requests]

\* the recipient lists of the calls: the broadcast tab sends for a list that
\* is not empty, and a recipient may be listed twice
RecipientLists == {<<"ann@x.org">>, <<"ann@x.org", "bob">>, <<"bob", "bob">>}

\* the requests of the call made for the recipient at position call
InCall(call, reqs) == [i \in 1..Len(reqs) |-> [call |-> call] @@ reqs[i]]

\* broadcast_message is called: the three locals before the loop
CallBroadcastMessage(list) ==
    /\ bpc = "idle"
    /\ recipients' = list
    /\ results' = <<>>
    /\ successful' = 0
    /\ failed' = 0
    /\ bpc' = "loop"
    /\ UNCHANGED <<broadcast_result, msg_log>>
    /\ UNCHANGED <<pvars, errvars, envars, fnvars, tabvars>>

\* one pass of the loop with the answers the server gives to its requests
SendWith(email_resp, username_resp, channel_resp, post_resp) ==
    LET recipient == recipients[Len(results) + 1]
        sent == send_direct_message(recipient, email_resp, username_resp, channel_resp, post_resp)
    IN /\ results' = Append(results, sent.value)
       /\ successful' = IF sent.value.success THEN successful + 1 ELSE successful
       /\ failed' = IF sent.value.success THEN failed ELSE failed + 1
       /\ msg_log' = msg_log \o InCall(Len(results) + 1, sent.requests)

\* the loop ends at the first recipient whose send fails
SendToNext_StopOnFailure ==
    /\ bpc = "loop"
    /\ Len(results) < Len(recipients)
    /\ \E email_resp \in LookupResponses, username_resp \in LookupResponses, channel_resp \in ChannelResponses, post_resp \in PostResponses :
          /\ SendWith(email_resp, username_resp, channel_resp, post_resp)
          /\ IF failed' > failed
             THEN /\ bpc' = "returned"
                  /\ broadcast_result' = [total |-> Len(recipients), successful |-> successful', failed |-> failed', results |-> results']
             ELSE UNCHANGED <<bpc, broadcast_result>>
    /\ UNCHANGED recipients
    /\ UNCHANGED <<pvars, errvars, envars, fnvars, tabvars>>

\* one pass of the loop of broadcast_message
SendToNext ==
    /\ bpc = "loop"
    /\ Len(results) < Len(recipients)
    /\ \E email_resp \in LookupResponses, username_resp \in LookupResponses, channel_resp \in ChannelResponses, post_resp \in PostResponses :
          SendWith(email_resp, username_resp, channel_resp, post_resp)
    /\ UNCHANGED <<recipients, bpc, broadcast_result>>
    /\ UNCHANGED <<pvars, errvars, envars, fnvars, tabvars>>

\* the loop is over: broadcast_message returns its dict
ReturnBroadcast ==
    /\ bpc = "loop"
    /\ Len(results) = Len(recipients)
    /\ bpc' = "returned"
    /\ broadcast_result' = [total |-> Len(recipients), successful |-> successful, failed |-> failed, results |-> results]
    /\ UNCHANGED <<recipients, results, successful, failed, msg_log>>
    /\ UNCHANGED <<pvars, errvars, envars, fnvars, tabvars>>

SendInit ==
    /\ channel = <<>>
    /\ changed = FALSE
    /\ pc = "idle"
    /\ start_timestamp = 0
    /\ end_timestamp = 0
    /\ per_page = 1
    /\ page = 0
    /\ all_posts = <<>>
    /\ requests = <<>>
    /\ pages = <<>>
    /\ result = NoResult
    /\ dates = None
    /\ err_log = <<>>
    /\ MsgIdle
    /\ posts = <<>>
    /\ heap = <<>>
    /\ heap0 = <<>>
    /\ enriched_posts = <<>>
    /\ epc = "returned"
    /\ thread_log = <<>>
    /\ req_log = <<>>
    /\ thread_call = None
    /\ FnIdle
    /\ TabIdle

SendNext ==
    \/ \E list \in RecipientLists : CallBroadcastMessage(list)
    \/ SendToNext
    \/ ReturnBroadcast

SendSpec == SendInit /\ [][SendNext]_vars

\* the positions of the successful results of a list
Successes(list) == {i \in 1..Len(list) : list[i].success}

\* the requests of the log made for the recipient at position call
RequestsOf(call) == {k \in 1..Len(msg_log) : msg_log[k].call = call}

\* C29: broadcast_message returns one result per recipient in the order of
\* the recipients; total is the number of recipients, successful and failed
\* count the results by their success and add up to total; a send that
\* failed does not keep the later recipients from being tried.
C29_OneResultPerRecipient ==
    bpc = "returned" =>
        /\ broadcast_result.total = Len(recipients)
        /\ Len(broadcast_result.results) = Len(recipients)
        /\ \A i \in 1..Len(recipients) : broadcast_result.results[i].recipient = recipients[i]
        /\ broadcast_result.successful = Cardinality(Successes(broadcast_result.results))
        /\ broadcast_result.failed = Len(recipients) - Cardinality(Successes(broadcast_result.results))
        /\ broadcast_result.successful + broadcast_result.failed = broadcast_result.total
        /\ \A i \in 1..Len(recipients) :
             \E k \in RequestsOf(i) : msg_log[k].request = "users/email" /\ msg_log[k].data = recipients[i]

\* a call returned for two recipients, the first send failed and the second succeeded
C29_Witness ==
    /\ bpc = "returned"
    /\ Len(recipients) = 2
    /\ ~broadcast_result.results[1].success
    /\ broadcast_result.results[2].success
    /\ broadcast_result.successful = 1
    /\ broadcast_result.failed = 1

\* the answer brought back an id that is not empty
GaveId(answer) == answer.kind = "answer" /\ Has(answer.json, "id") /\ answer.json.id # ""

\* the request at position k of the log was answered without an error status
AnsweredOk(k) == msg_log[k].answer.kind = "answer" /\ msg_log[k].answer.status_code < 400

\* the post requests of the log made for the recipient at position call
PostRequestsOf(call) == {k \in RequestsOf(call) : msg_log[k].request = "posts"}

\* C30: send_direct_message makes its post request only after, in the same
\* call, a lookup answered 200 with a user id and then the channel creation
\* for that user answered with the channel id the post is sent to; a call
\* with no post request reports success false with an error text that is
\* not empty; success is true exactly when the post request succeeded, and
\* the error is None then.
C30_PostOnlyAfterLookupAndChannel ==
    /\ \A k \in 1..Len(msg_log) :
         msg_log[k].request = "posts" =>
             \E i \in 1..(k - 1), j \in 1..(k - 1) :
                 /\ i < j
                 /\ msg_log[i].call = msg_log[k].call
                 /\ msg_log[j].call = msg_log[k].call
                 /\ msg_log[i].request \in {"users/email", "users/username"}
                 /\ msg_log[i].answer.kind = "answer"
                 /\ msg_log[i].answer.status_code = 200
                 /\ GaveId(msg_log[i].answer)
                 /\ msg_log[j].request = "channels/direct"
                 /\ msg_log[j].data = msg_log[i].answer.json.id
                 /\ AnsweredOk(j)
                 /\ GaveId(msg_log[j].answer)
                 /\ msg_log[k].data = msg_log[j].answer.json.id
    /\ \A call \in 1..Len(results) :
         /\ Cardinality(PostRequestsOf(call)) <= 1
         /\ PostRequestsOf(call) = {} =>
                /\ ~results[call].success
                /\ ~results[call].error.none
                /\ results[call].error.str # ""
         /\ results[call].success <=> \E k \in PostRequestsOf(call) : AnsweredOk(k)
         /\ results[call].success <=> results[call].error.none
         /\ results[call].recipient = recipients[call]

\* one call stopped at the channel creation, which answered without a channel
\* id, and another call posted its message after both earlier steps
C30_Witness ==
    /\ Len(results) = 2
    /\ ~results[1].success
    /\ results[1].error = Str(ChannelNotCreated)
    /\ PostRequestsOf(1) = {}
    /\ \E k \in RequestsOf(1) : msg_log[k].request = "channels/direct" /\ AnsweredOk(k) /\ ~GaveId(msg_log[k].answer)
    /\ results[2].success
    /\ \E k \in PostRequestsOf(2) : AnsweredOk(k)

=============================================================================
